---- MODULE Spec2Model ----
(***************************************************************************)
(* Lead-enrichment pipeline of innov8ai-cold-email.                        *)
(*                                                                         *)
(* The model covers the enrichment module (src/src/api/enrichment.ts):     *)
(* the readiness singletons, scrapeForContact, enrichLead,                 *)
(* findEmailsForLeads (phase 1) and generateIcebreakersForLeads (phase 2), *)
(* the ingestion of CSV rows into EnrichedLead records (FileUpload,        *)
(* src/unnamed/part_002) and the two callers of the phases in the App      *)
(* component (src/unnamed/part_000).                                       *)
(*                                                                         *)
(* JavaScript runs one continuation at a time: every action below is the   *)
(* code that runs between two awaits on the network (fetch), and the       *)
(* interleaving of the actions is the order in which the network answers.  *)
(* The external services Scrape, ExtractEmails and GenerateIcebreaker are  *)
(* the environment: their answers are drawn from the sets below.           *)
(***************************************************************************)
EXTENDS Naturals, Integers, Sequences, FiniteSets, TLC

VARIABLES
    apiKeys,           \* enrichment.ts:65   TRUE iff apiKeys !== null
    serverHasEnvVars,  \* enrichment.ts:66
    stage,             \* part_000:37   AppStage
    error,             \* part_000:42
    leads,             \* part_000:38   the App's lead list
    selectedLeads,     \* part_000:39   Set<number> in insertion order (0-based indexes)
    processingIndex,   \* part_000:41
    scrapedContent,    \* part_000:46   website -> markdown
    config,            \* part_000:40   EnrichmentConfig
    pc1,               \* state of the findEmailsForLeads call
    argLeads,          \* findEmailsForLeads: parameter leads (closure of the caller)
    validLeads,        \* enrichment.ts:287
    i,                 \* enrichment.ts:297  loop variable (0-based offset)
    tasks,             \* one entry per valid lead: the async mapper of enrichment.ts:301
    results,           \* enrichment.ts:291
    usage,             \* enrichment.ts:292
    rejection,         \* the error a rejected phase promise carries
    batchCount,        \* history: number of batches dispatched by the loop at 297
    calls,             \* history: external calls made, as <<operation, website>>
    progress,          \* history: the onProgress calls of findEmailsForLeads, in order
    openCalls,         \* the phase calls the App has started and that have not settled
    pc2,               \* state of the generateIcebreakersForLeads call
    leads2,            \* generateIcebreakersForLeads: parameter leads
    i2,                \* enrichment.ts:359  loop variable
    step2,             \* position inside the loop body of phase 2
    content2,          \* enrichment.ts:362  content
    main2,             \* scrapeForContact: mainResult, phase 2
    results2,          \* enrichment.ts:356
    usage2,            \* enrichment.ts:357
    pending,           \* a library function about to be applied, with its argument
    trail              \* history: the applications made so far, with what they returned

vars == <<apiKeys, serverHasEnvVars, stage, error, leads, selectedLeads,
          processingIndex, scrapedContent, config, pc1, argLeads, validLeads,
          i, tasks, results, usage, rejection, batchCount, calls, progress,
          openCalls, pc2, leads2, i2, step2, content2, main2, results2, usage2,
          pending, trail>>

\* the state of the pipeline, as opposed to the library functions applied
pipelineVars == <<apiKeys, serverHasEnvVars, stage, error, leads, selectedLeads,
                  processingIndex, scrapedContent, config, pc1, argLeads, validLeads,
                  i, tasks, results, usage, rejection, batchCount, calls, progress,
                  openCalls, pc2, leads2, i2, step2, content2, main2, results2, usage2>>
libVars    == <<pending, trail>>

appVars    == <<stage, error, leads, selectedLeads, processingIndex, scrapedContent>>
moduleVars == <<apiKeys, serverHasEnvVars>>
phase1Vars == <<pc1, argLeads, validLeads, i, tasks, results, usage, batchCount>>
phase2Vars == <<pc2, leads2, i2, step2, content2, main2, results2, usage2>>

-----------------------------------------------------------------------------
(* Bounds *)

MaxLeads == 3          \* longest ingested lead list
MaxConcurrencyBound == 2   \* largest maxConcurrency the slider is set to here
MaxReviewLeads == 2    \* longest lead list under review when phase 2 is modelled

-----------------------------------------------------------------------------
(* Values *)

Undefined == "undefined"            \* the JavaScript value undefined

Truthy(s) == s \notin {Undefined, ""}

\* a || b on strings
OrElse(a, b) == IF Truthy(a) THEN a ELSE b

Min(a, b) == IF a < b THEN a ELSE b

RECURSIVE Filter(_, _)
Filter(s, keep) ==
    IF s = <<>> THEN <<>>
    ELSE (IF Head(s) \in keep THEN <<Head(s)>> ELSE <<>>) \o Filter(Tail(s), keep)

\* Array.prototype.findIndex(l => l.website === w), 0-based, -1 when absent
FindIndex(ls, w) ==
    IF \E n \in 1..Len(ls) : ls[n].website = w
    THEN (CHOOSE n \in 1..Len(ls) :
             /\ ls[n].website = w
             /\ \A m \in 1..(n - 1) : ls[m].website # w) - 1
    ELSE -1

Range(s) == {s[n] : n \in 1..Len(s)}

-----------------------------------------------------------------------------
(* Ingestion: FileUpload.processWithSelectedColumns *)

\* existingEmail && existingEmail.includes('@')
EmailValues == {Undefined, "n/a", "in@csv"}
includesAt(s) == s \in {"in@csv"}
hasExistingEmail(existingEmail) == Truthy(existingEmail) /\ includesAt(existingEmail)

\* variant: the domain decides the status before the supplied e-mail does
processRowDomainFirst(row, websiteValue, isValid, validationError, existingEmail) ==
    [ row |-> row,
      website |-> OrElse(websiteValue, ""),
      email |-> IF hasExistingEmail(existingEmail) THEN existingEmail ELSE Undefined,
      icebreaker |-> Undefined,
      enrichmentStatus |->
          IF ~Truthy(websiteValue) \/ ~isValid THEN "skipped"
          ELSE IF hasExistingEmail(existingEmail) THEN "completed"
          ELSE "pending",
      domainValidation |->
          IF Truthy(websiteValue)
          THEN (IF isValid THEN "valid" ELSE "invalid")
          ELSE Undefined,
      errorMessage |->
          IF Truthy(websiteValue) /\ ~isValid
          THEN "Invalid domain: " \o validationError
          ELSE Undefined ]

\* the EnrichedLead built for one CSV row; isValid is validateDomain's verdict
\* and row stands for the cells copied through unchanged (company, extraFields)
processRow(row, websiteValue, isValid, validationError, existingEmail) ==
    [ row |-> row,
      website |-> OrElse(websiteValue, ""),
      email |-> IF hasExistingEmail(existingEmail) THEN existingEmail ELSE Undefined,
      icebreaker |-> Undefined,
      enrichmentStatus |->
          IF hasExistingEmail(existingEmail) THEN "completed"
          ELSE IF ~Truthy(websiteValue) \/ ~isValid THEN "skipped"
          ELSE "pending",
      domainValidation |->
          IF Truthy(websiteValue)
          THEN (IF isValid THEN "valid" ELSE "invalid")
          ELSE Undefined,
      errorMessage |->
          IF Truthy(websiteValue) /\ ~isValid
          THEN "Invalid domain: " \o validationError
          ELSE Undefined ]

\* rows with neither a website nor an email are dropped (part_002:125)
rowKept(websiteValue, existingEmail) ==
    Truthy(websiteValue) \/ hasExistingEmail(existingEmail)

\* website of the row at position p: rows carry pairwise distinct websites
SiteOf(p) == "site" \o ToString(p)

Sites == {SiteOf(p) : p \in 1..MaxLeads} \cup {""}

\* what one CSV row can hold: the website cell (or none), the verdict of
\* validateDomain on it, and the e-mail cell
RowLeads(p) ==
    { processRow(p, r[1], r[2], "bad tld", r[3]) :
        r \in { x \in {Undefined, SiteOf(p)} \X BOOLEAN \X EmailValues :
                   rowKept(x[1], x[3]) } }

\* the lists onUpload can receive: 1..MaxLeads kept rows (part_002:172)
IngestedLists ==
    UNION { { ls \in [1..n -> UNION {RowLeads(p) : p \in 1..n}] :
                \A p \in 1..n : ls[p] \in RowLeads(p) } : n \in 1..MaxLeads }

-----------------------------------------------------------------------------
(* The enrichment module: readiness *)

\* enrichment.ts:99
isEnrichmentReady == serverHasEnvVars \/ apiKeys

-----------------------------------------------------------------------------
(* The external services *)

NoScrape == [present |-> FALSE, success |-> FALSE, markdown |-> Undefined, error |-> Undefined]

\* ScrapeResult values the backend answers with (server.js:45-66): a page
\* with an e-mail address in it, a page without, a success without markdown,
\* a failure with its error text
ScrapeResults ==
    { [present |-> TRUE, success |-> TRUE,  markdown |-> "page with a@b.co", error |-> Undefined],
      [present |-> TRUE, success |-> TRUE,  markdown |-> "page text",        error |-> Undefined],
      [present |-> TRUE, success |-> TRUE,  markdown |-> Undefined,          error |-> Undefined],
      [present |-> TRUE, success |-> FALSE, markdown |-> Undefined,          error |-> "Failed to scrape URL"] }

NoEmailResult ==
    [present |-> FALSE, success |-> FALSE, primaryEmail |-> Undefined,
     inputTokens |-> 0, outputTokens |-> 0, error |-> Undefined]

\* EmailExtractionResult values the backend answers with (server.js:117-136)
EmailResults ==
    { [present |-> TRUE, success |-> TRUE,  primaryEmail |-> "found@site",
       inputTokens |-> 2, outputTokens |-> 1, error |-> Undefined],
      [present |-> TRUE, success |-> TRUE,  primaryEmail |-> Undefined,
       inputTokens |-> 2, outputTokens |-> 1, error |-> Undefined],
      [present |-> TRUE, success |-> FALSE, primaryEmail |-> Undefined,
       inputTokens |-> 2, outputTokens |-> 1, error |-> "Failed to parse AI response"] }

Returned(v) == [thrown |-> FALSE, message |-> Undefined, value |-> v]
Thrown(m, none) == [thrown |-> TRUE, message |-> m, value |-> none]

\* scrapeUrl (enrichment.ts:106-123): throws before any request when the
\* module is not ready; otherwise the fetch answers or fails
scrapeUrl ==
    IF ~isEnrichmentReady
    THEN {Thrown("API not initialized", NoScrape)}
    ELSE {Returned(r) : r \in ScrapeResults} \cup {Thrown("Failed to fetch", NoScrape)}

\* extractEmails (enrichment.ts:128-143)
extractEmails ==
    IF ~isEnrichmentReady
    THEN {Thrown("API not initialized", NoEmailResult)}
    ELSE {Returned(r) : r \in EmailResults} \cup {Thrown("Failed to fetch", NoEmailResult)}

\* enrichment.ts:208   emailRegex.test(content)
containsEmail(content) == content \in {"page with a@b.co"}

\* enrichment.ts:185
contactPaths == <<"/contact", "/contact-us", "/about">>

\* a request leaves the browser only when scrapeUrl passes its readiness check
Request(cs, op, website) == IF isEnrichmentReady THEN cs \cup {<<op, website>>} ELSE cs

-----------------------------------------------------------------------------
(* enrichLead and the mapper of findEmailsForLeads *)

\* variant: tests the presence of domainValidation instead of its verdict
HasDomainValidation(lead) == lead.domainValidation # Undefined

\* l.domainValidation?.isValid   (enrichment.ts:227, 287, 339)
IsValidDomain(lead) == lead.domainValidation = "valid"

\* enrichment.ts:287
ValidLeadsOf(ls) == Filter(ls, {l \in Range(ls) : IsValidDomain(l)})

\* variant: selects the skipped leads by their status instead of their domain
SkippedByStatus(ls) == Filter(ls, {l \in Range(ls) : l.enrichmentStatus = "skipped"})

\* enrichment.ts:339
SkippedLeadsOf(ls) == Filter(ls, {l \in Range(ls) : ~IsValidDomain(l)})

\* enrichment.ts:341
SkippedResult(lead) ==
    [lead |-> [lead EXCEPT !.enrichmentStatus = "skipped"],
     scrapeResult |-> NoScrape, emailResult |-> NoEmailResult]

RECURSIVE SkippedResults(_)
SkippedResults(ls) ==
    IF ls = <<>> THEN <<>> ELSE <<SkippedResult(Head(ls))>> \o SkippedResults(Tail(ls))

\* variant: the try block ends before the extraction call
EnrichLeadTryScrapeOnly == {"scrapeForContact"}

\* the awaited calls that sit inside the try block of enrichLead (232-268)
EnrichLeadTry == {"scrapeForContact", "extractEmails"}

\* enrichment.ts:312   the options findEmailsForLeads passes to enrichLead
EnrichOptions == [generateIcebreaker |-> FALSE]

\* the mapper of a valid lead before its batch is dispatched
IdleTask(lead) ==
    [stage |-> "idle", path |-> 0, mainResult |-> NoScrape, batchNo |-> 0,
     threw |-> FALSE,   \* history: a call awaited by enrichLead threw for this lead
     result |-> [lead |-> lead, scrapeResult |-> NoScrape, emailResult |-> NoEmailResult]]

\* the callback handleFindEmails passes as onProgress (part_000:90-117),
\* applied to the App state app = [leads, scrapedContent, processingIndex]
OnFindProgress(app, currentIndex, result) ==
    LET idx == FindIndex(app.leads, result.lead.website) IN
    [ processingIndex |-> currentIndex,
      scrapedContent |->
          IF result.scrapeResult.present /\ Truthy(result.scrapeResult.markdown)
          THEN [app.scrapedContent EXCEPT ![result.lead.website] = result.scrapeResult.markdown]
          ELSE app.scrapedContent,
      leads |->
          IF idx # -1 THEN [app.leads EXCEPT ![idx + 1] = result.lead] ELSE app.leads ]

\* variant: the figures are counted from the start of the batch, not from
\* what the other leads have added since
TrackUsageFromZero(u, result) ==
    [ inputTokens  |-> IF result.emailResult.present
                       THEN result.emailResult.inputTokens ELSE u.inputTokens,
      outputTokens |-> IF result.emailResult.present
                       THEN result.emailResult.outputTokens ELSE u.outputTokens,
      scrapedPages |-> u.scrapedPages + (IF result.scrapeResult.present
                                            /\ result.scrapeResult.success THEN 1 ELSE 0) ]

\* enrichment.ts:314-321
TrackUsage(u, result) ==
    [ inputTokens  |-> u.inputTokens + (IF result.emailResult.present
                                         THEN result.emailResult.inputTokens ELSE 0),
      outputTokens |-> u.outputTokens + (IF result.emailResult.present
                                         THEN result.emailResult.outputTokens ELSE 0),
      scrapedPages |-> u.scrapedPages + (IF result.scrapeResult.present
                                            /\ result.scrapeResult.success THEN 1 ELSE 0) ]

\* variant: only the start of a lead is reported
ReportStarts(st, progressStage, currentIndex, website) ==
    IF progressStage = "scraping"
    THEN Append(st.progress,
                [stage |-> progressStage, currentIndex |-> currentIndex,
                 totalCount |-> Len(st.tasks), currentLead |-> website,
                 usage |-> st.usage, callsSoFar |-> st.calls])
    ELSE st.progress

\* onProgress?.({stage, currentIndex, totalCount, currentLead, usage}, ...)
\* (enrichment.ts:304-310, 323-329): the report is logged with the usage
\* figures and the external calls as they are when the callback runs
Report(st, progressStage, currentIndex, website) ==
    Append(st.progress,
           [stage |-> progressStage, currentIndex |-> currentIndex,
            totalCount |-> Len(st.tasks), currentLead |-> website,
            usage |-> st.usage, callsSoFar |-> st.calls])

\* The state the mapper works on: st = [app, tasks, usage, calls, progress].  The locals
\* of scrapeForContact (path, mainResult) are gone once it has returned.
\* enrichLead has returned result for the valid lead j: lines 314-331
Finish(st, j, result) ==
    [ st EXCEPT
        !.usage = TrackUsage(st.usage, result),
        !.progress = Report([st EXCEPT !.usage = TrackUsage(st.usage, result)],
                            "extracting", j, result.lead.website),
        !.app   = OnFindProgress(st.app, j, result),
        !.tasks = [st.tasks EXCEPT ![j] = [@ EXCEPT !.stage = "done", !.path = 0,
                                                   !.mainResult = NoScrape,
                                                   !.result = result]] ]

\* the mapper for the valid lead j (1-based; globalIndex = j - 1) up to its
\* first await: lines 302-312 and enrichLead 223-235
Dispatch(st, j, lead, batchNo) ==
    LET started == [ st EXCEPT
                       !.progress = Report(st, "scraping", j - 1, lead.website),
                       !.app = OnFindProgress(st.app, j - 1,
                                   [lead |-> lead, scrapeResult |-> NoScrape,
                                    emailResult |-> NoEmailResult]) ]
        result  == [lead |-> lead, scrapeResult |-> NoScrape, emailResult |-> NoEmailResult]
    IN
    IF ~IsValidDomain(lead)
    THEN Finish([started EXCEPT !.tasks[j].batchNo = batchNo], j,
                [result EXCEPT !.lead.enrichmentStatus = "skipped"])
    ELSE [ started EXCEPT
             !.tasks[j] = [stage |-> "main", path |-> 0, mainResult |-> NoScrape,
                           batchNo |-> batchNo, threw |-> FALSE,
                           result |-> [result EXCEPT !.lead.enrichmentStatus = "processing"]],
             !.calls = Request(@, "scrape", lead.website) ]

\* batch.map(...) over validLeads.slice(from, from + k): lines 298-301
RECURSIVE DispatchAll(_, _, _, _, _)
DispatchAll(st, vl, from, to, batchNo) ==
    IF from >= to \/ from >= Len(vl) THEN st
    ELSE DispatchAll(Dispatch(st, from + 1, vl[from + 1], batchNo), vl, from + 1, to, batchNo)

\* variant: a slice one lead too wide
BatchEndWide(from, k) == from + k + 1

\* the end index of the slice of one iteration (enrichment.ts:298)
BatchEnd(from, k) == from + k

\* variant: Promise.race(batch), the first mapper to return ends the wait
AnySettled(ts, from, to) ==
    \E j \in (from + 1)..Min(to, Len(ts)) : ts[j].stage = "done"

\* Promise.all(batch): every mapper of the batch has returned (enrichment.ts:300)
AllSettled(ts, from, to) ==
    \A j \in (from + 1)..Min(to, Len(ts)) : ts[j].stage = "done"

\* variant: the skipped leads are put in front of the results
LoopFromSkippedFirst(st, vl, from, k, all, res, batches) ==
    IF from < Len(vl)
    THEN [ pc |-> "running",
           st |-> DispatchAll(st, vl, from, BatchEnd(from, k), batches + 1),
           results |-> res, batches |-> batches + 1 ]
    ELSE [ pc |-> "resolved", st |-> st,
           results |-> SkippedResults(SkippedLeadsOf(all)) \o res,
           batches |-> batches ]

\* for (let i = ...; i < validLeads.length; i += maxConcurrency): what the
\* function does when the loop is entered with offset from (lines 297-344)
LoopFrom(st, vl, from, k, all, res, batches) ==
    IF from < Len(vl)
    THEN [ pc |-> "running",
           st |-> DispatchAll(st, vl, from, BatchEnd(from, k), batches + 1),
           results |-> res, batches |-> batches + 1 ]
    ELSE [ pc |-> "resolved", st |-> st,
           results |-> res \o SkippedResults(SkippedLeadsOf(all)),
           batches |-> batches ]

CurrentSt ==
    [ app |-> [leads |-> leads, scrapedContent |-> scrapedContent,
               processingIndex |-> processingIndex],
      tasks |-> tasks, usage |-> usage, calls |-> calls, progress |-> progress ]

\* write the mapper state st back to the variables
Store(st) ==
    /\ leads' = st.app.leads
    /\ scrapedContent' = st.app.scrapedContent
    /\ processingIndex' = st.app.processingIndex
    /\ tasks' = st.tasks
    /\ usage' = st.usage
    /\ calls' = st.calls
    /\ progress' = st.progress

\* scrapeForContact has returned sr to enrichLead: lines 236-245
AfterScrape(st, j, sr) ==
    LET r == [st.tasks[j].result EXCEPT !.scrapeResult = sr] IN
    IF ~sr.success \/ ~Truthy(sr.markdown)
    THEN Finish(st, j, [r EXCEPT !.lead.enrichmentStatus = "failed",
                                 !.lead.errorMessage = OrElse(sr.error, "Failed to scrape website")])
    ELSE [ st EXCEPT
             !.tasks[j] = [@ EXCEPT !.stage = "extract", !.path = 0,
                                    !.mainResult = NoScrape, !.result = r],
             !.calls = Request(@, "extract", r.lead.website) ]

\* variant: the catch block swallows the error and leaves the lead as it is
CaughtLeavesStatus(st, j, message) ==
    Finish([st EXCEPT !.tasks[j].threw = TRUE], j, st.tasks[j].result)

\* the catch block of enrichLead: lines 269-273
Caught(st, j, message) ==
    Finish([st EXCEPT !.tasks[j].threw = TRUE], j,
           [st.tasks[j].result EXCEPT !.lead.enrichmentStatus = "failed",
                                      !.lead.errorMessage = message])

-----------------------------------------------------------------------------
(* Initial state: the module is loaded, a lead list has been uploaded and    *)
(* the App shows the configure stage                                        *)

NoUsage == [inputTokens |-> 0, outputTokens |-> 0, scrapedPages |-> 0]

\* no library function is being applied
LibIdle == pending = [fn |-> "none"] /\ trail = <<>>

Phase2Idle ==
    /\ pc2 = "idle"
    /\ leads2 = <<>>
    /\ i2 = 0
    /\ step2 = "none"
    /\ content2 = ""
    /\ main2 = NoScrape
    /\ results2 = <<>>
    /\ usage2 = NoUsage

Init ==
    /\ apiKeys = FALSE
    /\ serverHasEnvVars = FALSE
    /\ stage = "configure"
    /\ error = Undefined
    /\ leads \in IngestedLists
    /\ selectedLeads = <<>>
    /\ processingIndex = 0
    /\ scrapedContent = [w \in Sites |-> Undefined]
    /\ config \in [maxConcurrency : 1..MaxConcurrencyBound]
    /\ pc1 = "idle"
    /\ argLeads = <<>>
    /\ validLeads = <<>>
    /\ i = 0
    /\ tasks = <<>>
    /\ results = <<>>
    /\ usage = NoUsage
    /\ rejection = Undefined
    /\ batchCount = 0
    /\ calls = {}
    /\ progress = <<>>
    /\ openCalls = <<>>
    /\ Phase2Idle
    /\ LibIdle

-----------------------------------------------------------------------------
(* Actions of phase 1 *)

\* checkServerEnvVars (enrichment.ts:71-80), called once at start-up, before
\* any key is entered (part_000:49-66)
CheckServerEnvVars ==
    /\ pc1 = "idle" /\ stage = "configure" /\ ~apiKeys /\ ~serverHasEnvVars
    /\ \E hasAnthropicKey, hasFirecrawlKey \in BOOLEAN :
          serverHasEnvVars' = (hasAnthropicKey /\ hasFirecrawlKey)
    /\ UNCHANGED <<libVars, openCalls, apiKeys, appVars, config, phase1Vars, rejection, calls, progress, phase2Vars>>

\* initEnrichment (enrichment.ts:92-94), called when the server has no keys
\* (part_000:56-58, 68-71)
InitEnrichment ==
    /\ pc1 = "idle" /\ stage = "configure" /\ ~apiKeys /\ ~serverHasEnvVars
    /\ apiKeys' = TRUE
    /\ UNCHANGED <<libVars, openCalls, serverHasEnvVars, appVars, config, phase1Vars, rejection, calls, progress, phase2Vars>>

\* handleFindEmails up to its await (part_000:80-87) and findEmailsForLeads
\* up to its first await (enrichment.ts:284-300)
HandleFindEmails ==
    /\ stage = "configure" /\ pc1 = "idle"
    /\ LET vl == ValidLeadsOf(leads)
           st == [ app |-> [leads |-> leads,
                            scrapedContent |-> [w \in Sites |-> Undefined],
                            processingIndex |-> 0],
                   tasks |-> [j \in 1..Len(vl) |-> IdleTask(vl[j])],
                   usage |-> NoUsage, calls |-> calls, progress |-> <<>> ]
           go == LoopFrom(st, vl, 0, config.maxConcurrency, leads, <<>>, 0)
       IN /\ stage' = "finding_emails"
          /\ error' = Undefined
          /\ argLeads' = leads
          /\ validLeads' = vl
          /\ i' = 0
          /\ pc1' = go.pc
          /\ results' = go.results
          /\ batchCount' = go.batches
          /\ Store(go.st)
    /\ UNCHANGED <<libVars, openCalls, moduleVars, selectedLeads, config, rejection, phase2Vars>>

\* the rest of the state when one mapper moves on
MapperStep(st) ==
    /\ Store(st)
    /\ UNCHANGED <<libVars, openCalls, moduleVars, stage, error, selectedLeads, config, pc1, argLeads,
                   validLeads, i, results, rejection, batchCount, phase2Vars>>

\* a call awaited by enrichLead threw message: caught when the call sits in
\* the try block, otherwise the mapper's promise, Promise.all and
\* findEmailsForLeads reject with it
Throws(j, call, message) ==
    IF call \in EnrichLeadTry
    THEN MapperStep(Caught(CurrentSt, j, message))
    ELSE /\ pc1' = "rejected"
         /\ rejection' = message
         /\ tasks' = [tasks EXCEPT ![j].threw = TRUE]
         /\ UNCHANGED <<libVars, openCalls, moduleVars, appVars, config, argLeads, validLeads, i,
                        results, usage, batchCount, calls, progress, phase2Vars>>

\* scrapeForContact: the main-page scrape answers (enrichment.ts:177-191)
ScrapeMainReturns(j) ==
    /\ pc1 = "running" /\ j \in 1..Len(tasks) /\ tasks[j].stage = "main"
    /\ \E a \in scrapeUrl :
         IF a.thrown THEN Throws(j, "scrapeForContact", a.message)
         ELSE IF a.value.success /\ Truthy(a.value.markdown) /\ containsEmail(a.value.markdown)
         THEN MapperStep(AfterScrape(CurrentSt, j, a.value))
         ELSE MapperStep([ CurrentSt EXCEPT
                  !.tasks[j] = [@ EXCEPT !.stage = "contact", !.path = 1,
                                         !.mainResult = a.value],
                  !.calls = Request(@, "scrape", tasks[j].result.lead.website) ])

\* scrapeForContact: a contact-page scrape answers (enrichment.ts:188-202)
ContactReturns(j) ==
    /\ pc1 = "running" /\ j \in 1..Len(tasks) /\ tasks[j].stage = "contact"
    /\ \E a \in scrapeUrl :
         IF ~a.thrown /\ a.value.success /\ Truthy(a.value.markdown)
               /\ containsEmail(a.value.markdown)
         THEN MapperStep(AfterScrape(CurrentSt, j, a.value))
         ELSE IF tasks[j].path < Len(contactPaths)
         THEN MapperStep([ CurrentSt EXCEPT
                  !.tasks[j] = [@ EXCEPT !.path = @ + 1],
                  !.calls = Request(@, "scrape", tasks[j].result.lead.website) ])
         ELSE MapperStep(AfterScrape(CurrentSt, j, tasks[j].mainResult))

\* variant: the e-mail is taken over whenever the extraction reports success
SetsEmailOnSuccess(emailResult) == emailResult.success

\* emailResult.success && emailResult.primaryEmail   (enrichment.ts:248)
SetsEmail(emailResult) == emailResult.success /\ Truthy(emailResult.primaryEmail)

\* enrichLead: extractEmails answers (enrichment.ts:245-268)
ExtractReturns(j) ==
    /\ pc1 = "running" /\ j \in 1..Len(tasks) /\ tasks[j].stage = "extract"
    /\ \E a \in extractEmails :
         IF a.thrown THEN Throws(j, "extractEmails", a.message)
         ELSE LET r0 == [tasks[j].result EXCEPT !.emailResult = a.value]
                  r1 == IF SetsEmail(a.value)
                        THEN [r0 EXCEPT !.lead.email = a.value.primaryEmail]
                        ELSE r0
              IN MapperStep(Finish(CurrentSt, j,
                                   [r1 EXCEPT !.lead.enrichmentStatus = "completed"]))

\* Promise.all of the current batch resolves: its results are pushed and the
\* loop goes on (enrichment.ts:300, 335-344)
BatchResolves ==
    /\ pc1 = "running"
    /\ AllSettled(tasks, i, BatchEnd(i, config.maxConcurrency))
    /\ LET to == Min(BatchEnd(i, config.maxConcurrency), Len(tasks))
           batchResults == [n \in 1..(to - i) |-> tasks[i + n].result]
           go == LoopFrom(CurrentSt, validLeads, i + config.maxConcurrency,
                          config.maxConcurrency, argLeads,
                          results \o batchResults, batchCount)
       IN /\ i' = i + config.maxConcurrency
          /\ pc1' = go.pc
          /\ results' = go.results
          /\ batchCount' = go.batches
          /\ Store(go.st)
    /\ UNCHANGED <<libVars, openCalls, moduleVars, stage, error, selectedLeads, config, argLeads,
                   validLeads, rejection, phase2Vars>>

\* Set.prototype.add
SetAdd(set, x) == IF x \in Range(set) THEN set ELSE Append(set, x)

\* part_000:121-127   results.forEach(...) filling leadsWithEmails
RECURSIVE LeadsWithEmails(_, _, _)
LeadsWithEmails(rs, ls, acc) ==
    IF rs = <<>> THEN acc
    ELSE LET index == FindIndex(ls, Head(rs).lead.website) IN
         LeadsWithEmails(Tail(rs), ls,
                         IF index # -1 /\ Truthy(Head(rs).lead.email)
                         THEN SetAdd(acc, index) ELSE acc)

\* handleFindEmails after its await (part_000:120-133)
FindEmailsSettles ==
    /\ pc1 \in {"resolved", "rejected"}
    /\ IF pc1 = "resolved"
       THEN /\ selectedLeads' = LeadsWithEmails(results, argLeads, <<>>)
            /\ stage' = "review"
            /\ error' = error
            /\ pc1' = "done"
       ELSE /\ error' = rejection
            /\ stage' = "configure"
            /\ selectedLeads' = selectedLeads
            /\ pc1' = "idle"
    /\ UNCHANGED <<libVars, openCalls, moduleVars, leads, processingIndex, scrapedContent, config, argLeads,
                   validLeads, i, tasks, results, usage, rejection, batchCount, calls, progress,
                   phase2Vars>>

Next ==
    \/ CheckServerEnvVars
    \/ InitEnrichment
    \/ HandleFindEmails
    \/ \E j \in 1..MaxLeads + 1 : ScrapeMainReturns(j)
    \/ \E j \in 1..MaxLeads + 1 : ContactReturns(j)
    \/ \E j \in 1..MaxLeads + 1 : ExtractReturns(j)
    \/ BatchResolves
    \/ FindEmailsSettles

Spec == Init /\ [][Next]_vars

-----------------------------------------------------------------------------
(* Properties of phase 1 *)

Settled1 == pc1 \in {"resolved", "done"}

InFlight == {j \in 1..Len(tasks) : tasks[j].stage \in {"main", "contact", "extract"}}

CeilDiv(n, k) == (n + k - 1) \div k

\* the result findEmailsForLeads returned for the input lead at position p
ResultsFor(p) == {n \in 1..Len(results) : results[n].lead.row = argLeads[p].row}

\* C1: with maxConcurrency = k and n valid-domain leads, phase 1 dispatches
\* exactly ceil(n/k) batches, and a lead of a batch is started (progress
\* callback, Scrape call) only when every lead of the earlier batches has
\* finished.
C1_BatchesInSequence ==
    /\ \A j1, j2 \in 1..Len(tasks) :
          (tasks[j2].stage # "idle" /\ tasks[j1].stage # "idle"
              /\ tasks[j1].batchNo < tasks[j2].batchNo)
              => tasks[j1].stage = "done"
    /\ \A j1, j2 \in 1..Len(tasks) :
          (j1 < j2 /\ tasks[j2].stage # "idle") => tasks[j1].stage # "idle"
    /\ Settled1 =>
          batchCount = CeilDiv(Cardinality({p \in 1..Len(argLeads) :
                                               argLeads[p].domainValidation = "valid"}),
                               config.maxConcurrency)

C1_Witness ==
    /\ pc1 = "done"
    /\ config.maxConcurrency = 2
    /\ Len(tasks) = 3
    /\ batchCount = 2
    /\ tasks[3].batchNo = 2

\* C2: at every moment of phase 1 the number of leads that have started
\* enrichment and not finished is at most maxConcurrency.
C2_BoundedFanOut == Cardinality(InFlight) <= config.maxConcurrency

C2_Witness ==
    /\ Cardinality(InFlight) = 2
    /\ config.maxConcurrency = 2
    /\ \E j \in 1..Len(tasks) : tasks[j].stage = "idle"
    /\ \E j1, j2 \in InFlight : tasks[j1].stage = "extract" /\ tasks[j2].stage = "contact"

\* C3: an error thrown by Scrape or ExtractEmails for one lead never rejects
\* findEmailsForLeads; when the call resolves every valid-domain lead has its
\* result, the leads that threw are failed, and a lead that did not throw and
\* whose scrape delivered markdown is completed.
C3_ThrowIsolated ==
    /\ pc1 # "rejected"
    /\ Settled1 =>
         \A j \in 1..Len(tasks) :
            /\ tasks[j].stage = "done"
            /\ \E n \in 1..Len(results) : results[n] = tasks[j].result
            /\ tasks[j].threw => tasks[j].result.lead.enrichmentStatus = "failed"
            /\ (~tasks[j].threw /\ tasks[j].result.scrapeResult.success
                  /\ Truthy(tasks[j].result.scrapeResult.markdown))
                 => tasks[j].result.lead.enrichmentStatus = "completed"

C3_Witness ==
    /\ pc1 = "done"
    /\ Len(tasks) = 3
    /\ tasks[1].batchNo = 1 /\ tasks[2].batchNo = 1 /\ tasks[3].batchNo = 2
    /\ tasks[1].threw /\ tasks[1].result.lead.enrichmentStatus = "failed"
    /\ tasks[1].result.scrapeResult.present
    /\ ~tasks[2].threw /\ tasks[2].result.lead.enrichmentStatus = "completed"
    /\ ~tasks[3].threw /\ tasks[3].result.lead.enrichmentStatus = "completed"

\* C5: a lead whose domainValidation.isValid is false, or whose
\* domainValidation is absent, never causes an external call in phase 1.
C5_InvalidNeverCalled ==
    \A p \in 1..Len(leads) :
       leads[p].domainValidation # "valid"
          => /\ \A c \in calls : c[2] # leads[p].website
             /\ \A j \in 1..Len(tasks) : tasks[j].result.lead.row # leads[p].row

C5_Witness ==
    /\ pc1 = "done"
    /\ \E p, q, r \in 1..Len(argLeads) :
          /\ argLeads[p].domainValidation = "invalid"
          /\ argLeads[q].domainValidation = Undefined
          /\ argLeads[r].domainValidation = "valid"
          /\ <<"extract", argLeads[r].website>> \in calls

\* C6: when findEmailsForLeads resolves, its result list holds exactly one
\* result for every input lead, and nothing else.
C6_OneResultPerLead ==
    Settled1 =>
       /\ Len(results) = Len(argLeads)
       /\ \A p \in 1..Len(argLeads) : Cardinality(ResultsFor(p)) = 1

C6_Witness ==
    /\ pc1 = "done"
    /\ Len(argLeads) = 3
    /\ \E n \in 1..Len(results) : results[n].lead.enrichmentStatus = "completed"
                                    /\ results[n].emailResult.present
    /\ \E n \in 1..Len(results) : results[n].lead.enrichmentStatus = "failed"
    /\ \E n \in 1..Len(results) : results[n].lead.enrichmentStatus = "skipped"

\* C7: when the service is not initialized, phase 1 over at least one
\* valid-domain lead throws one error to the caller and aborts, rather than
\* recording the error on the leads and resolving.
C7_NotInitializedAborts ==
    (~isEnrichmentReady /\ Len(validLeads) >= 1 /\ pc1 \in {"resolved", "rejected", "done"})
        => pc1 = "rejected"

\* C8: for every valid-domain lead, a failed scrape, an ExtractEmails answer
\* with success = false, or a thrown exception leaves the lead's result failed
\* with a non-empty errorMessage.
C8_FailureMarksFailed ==
    \A j \in 1..Len(tasks) :
       (tasks[j].stage = "done"
          /\ \/ tasks[j].threw
             \/ (tasks[j].result.scrapeResult.present /\ ~tasks[j].result.scrapeResult.success)
             \/ (tasks[j].result.emailResult.present /\ ~tasks[j].result.emailResult.success))
       => /\ tasks[j].result.lead.enrichmentStatus = "failed"
          /\ Truthy(tasks[j].result.lead.errorMessage)

TerminalStatuses == {"completed", "failed", "skipped"}

\* C9: completed, failed and skipped are terminal: a lead that enters phase 1
\* with one of them is returned with the same enrichmentStatus.
C9_TerminalStatusKept ==
    Settled1 =>
       \A p \in 1..Len(argLeads) :
          argLeads[p].enrichmentStatus \in TerminalStatuses
             => \A n \in ResultsFor(p) :
                   results[n].lead.enrichmentStatus = argLeads[p].enrichmentStatus

\* C10: a lead ingested as completed because its e-mail came with the input
\* is skipped by discovery: phase 1 makes no Scrape and no ExtractEmails call
\* for it, even when its domain is valid.
C10_SuppliedEmailNotScraped ==
    \A p \in 1..Len(argLeads) :
       (argLeads[p].enrichmentStatus = "completed" /\ Truthy(argLeads[p].email))
          => \A c \in calls : c[2] # argLeads[p].website

\* C11: in what findEmailsForLeads returns, a lead's email differs from the
\* email it was handed in with only if the lead has a valid domain, ended
\* completed and extractEmails answered success with a primaryEmail, which is
\* then the lead's email; skipped leads, scrape failures, extraction failures
\* and thrown errors leave the email as ingestion supplied it.
C11_EmailOnlyFromExtraction ==
    \A n \in 1..Len(results) : \A p \in 1..Len(argLeads) :
        (results[n].lead.row = argLeads[p].row
           /\ results[n].lead.email # argLeads[p].email)
        => /\ argLeads[p].domainValidation = "valid"
           /\ results[n].lead.enrichmentStatus = "completed"
           /\ results[n].emailResult.present
           /\ results[n].emailResult.success
           /\ Truthy(results[n].emailResult.primaryEmail)
           /\ results[n].lead.email = results[n].emailResult.primaryEmail

\* phase 1 has settled with one lead whose supplied email was replaced by the
\* extracted one and one lead whose supplied email survived an extraction
\* that found no primaryEmail
C11_Witness ==
    /\ Settled1
    /\ \E n \in 1..Len(results) : \E p \in 1..Len(argLeads) :
          /\ results[n].lead.row = argLeads[p].row
          /\ argLeads[p].email = "in@csv"
          /\ results[n].lead.email = "found@site"
    /\ \E n \in 1..Len(results) :
          /\ results[n].emailResult.present
          /\ ~Truthy(results[n].emailResult.primaryEmail)
          /\ results[n].lead.email = "in@csv"

-----------------------------------------------------------------------------
(* Phase 2: generateIcebreakersForLeads and its caller *)

NoIcebreakerResult ==
    [present |-> FALSE, success |-> FALSE, icebreaker |-> "",
     inputTokens |-> 0, outputTokens |-> 0, error |-> Undefined]

\* IcebreakerResult values the backend answers with (server.js:192-214)
IcebreakerResults ==
    { [present |-> TRUE, success |-> TRUE,  icebreaker |-> "Loved your launch",
       inputTokens |-> 3, outputTokens |-> 1, error |-> Undefined],
      [present |-> TRUE, success |-> TRUE,  icebreaker |-> "",
       inputTokens |-> 3, outputTokens |-> 1, error |-> Undefined],
      [present |-> TRUE, success |-> FALSE, icebreaker |-> "",
       inputTokens |-> 0, outputTokens |-> 0, error |-> "Unknown AI error"] }

\* generateIcebreaker (enrichment.ts:148-170)
generateIcebreaker ==
    IF ~isEnrichmentReady
    THEN {Thrown("API not initialized", NoIcebreakerResult)}
    ELSE {Returned(r) : r \in IcebreakerResults}
            \cup {Thrown("Failed to fetch", NoIcebreakerResult)}

\* enrichment.ts:391-397
NoContentResult ==
    [present |-> TRUE, success |-> FALSE, icebreaker |-> "",
     inputTokens |-> 0, outputTokens |-> 0, error |-> "No content available"]

\* variant: the reported lead takes the place of the App's lead
OnIcebreakerProgressReplace(app, currentIndex, lead) ==
    LET idx == FindIndex(app.leads, lead.website) IN
    [ processingIndex |-> currentIndex,
      leads |-> IF idx # -1
                THEN [app.leads EXCEPT ![idx + 1] = lead]
                ELSE app.leads ]

\* the callback handleGenerateIcebreakers passes as onProgress
\* (part_000:149-174), applied to app = [leads, processingIndex]
OnIcebreakerProgress(app, currentIndex, lead) ==
    LET idx == FindIndex(app.leads, lead.website) IN
    [ processingIndex |-> currentIndex,
      leads |-> IF idx # -1
                THEN [app.leads EXCEPT ![idx + 1].icebreaker = lead.icebreaker]
                ELSE app.leads ]

\* The state the loop of phase 2 works on:
\* f = [pc, app, i, step, content, main, results, usage, calls].
Frame2 ==
    [ pc |-> pc2, app |-> [leads |-> leads, processingIndex |-> processingIndex],
      i |-> i2, step |-> step2, content |-> content2, main |-> main2,
      results |-> results2, usage |-> usage2, calls |-> calls ]

Store2(f) ==
    /\ pc2' = f.pc
    /\ leads' = f.app.leads
    /\ processingIndex' = f.app.processingIndex
    /\ i2' = f.i
    /\ step2' = f.step
    /\ content2' = f.content
    /\ main2' = f.main
    /\ results2' = f.results
    /\ usage2' = f.usage
    /\ calls' = f.calls

\* variant: the cache is not consulted, every lead is scraped again
LoopHead2Rescrape(f, ls, cache, n) ==
    IF n >= Len(ls)
    THEN [f EXCEPT !.pc = "resolved", !.i = n, !.step = "none", !.content = "",
                   !.main = NoScrape]
    ELSE LET lead == ls[n + 1] IN
         [f EXCEPT !.i = n, !.content = "", !.main = NoScrape,
                   !.app = OnIcebreakerProgress(f.app, n, lead),
                   !.step = "main",
                   !.calls = Request(@, "scrape", lead.website)]

\* the head of the loop body for the lead at 0-based index n, up to its first
\* await, or the return when the list is exhausted (lines 359-381, 422)
LoopHead2(f, ls, cache, n) ==
    IF n >= Len(ls)
    THEN [f EXCEPT !.pc = "resolved", !.i = n, !.step = "none", !.content = "",
                   !.main = NoScrape]
    ELSE LET lead    == ls[n + 1]
             content == OrElse(cache[lead.website], "")
             g == [f EXCEPT !.i = n, !.content = content, !.main = NoScrape,
                            !.app = OnIcebreakerProgress(f.app, n, lead)]
         IN IF ~Truthy(content)
            THEN [g EXCEPT !.step = "main",
                           !.calls = Request(@, "scrape", lead.website)]
            ELSE [g EXCEPT !.step = "generate",
                           !.calls = Request(@, "icebreaker", lead.website)]

\* lines 400-420: the result of the current lead is pushed, reported, and the
\* loop goes to the next lead
Push2(f, ls, cache, icebreakerResult) ==
    LET lead   == ls[f.i + 1]
        result == [ lead |-> [lead EXCEPT !.icebreaker =
                                  OrElse(icebreakerResult.icebreaker, Undefined)],
                    icebreakerResult |-> icebreakerResult ]
        g == [f EXCEPT
                !.usage = [@ EXCEPT
                             !.inputTokens = @ + icebreakerResult.inputTokens,
                             !.outputTokens = @ + icebreakerResult.outputTokens],
                !.results = Append(@, result),
                !.app = OnIcebreakerProgress(f.app, f.i + 1, result.lead)]
    IN LoopHead2(g, ls, cache, f.i + 1)

\* scrapeForContact has returned sr to the loop: lines 377-398
AfterScrape2(f, ls, cache, sr) ==
    IF sr.success /\ Truthy(sr.markdown)
    THEN [f EXCEPT !.content = sr.markdown, !.main = NoScrape,
                   !.usage = [@ EXCEPT !.scrapedPages = @ + 1],
                   !.step = "generate",
                   !.calls = Request(@, "icebreaker", ls[f.i + 1].website)]
    ELSE Push2([f EXCEPT !.main = NoScrape], ls, cache, NoContentResult)

\* the awaited calls of the loop body that sit inside a try block: none
\* (lines 359-420 hold no try statement)
IcebreakerLoopTry == {}

\* a call awaited by the loop body threw
Throws2(f, call, message) ==
    IF call \in IcebreakerLoopTry
    THEN Push2(f, leads2, scrapedContent, NoContentResult)
    ELSE [f EXCEPT !.pc = "rejected", !.step = "none"]

-----------------------------------------------------------------------------
(* The review stage: what phase 1 leaves behind *)

\* the App's row at position p after phase 1, with the markdown cached for
\* its website: rows with an invalid or absent domain are as ingested;
\* a valid-domain row is failed or completed
ReviewRows(p, ready) ==
    UNION { IF l.domainValidation # "valid"
            THEN { [lead |-> l, cached |-> Undefined] }
            ELSE IF ~ready
            THEN { [lead |-> [l EXCEPT !.enrichmentStatus = "failed",
                                       !.errorMessage = "API not initialized"],
                    cached |-> Undefined] }
            ELSE { [lead |-> [l EXCEPT !.enrichmentStatus = "failed",
                                       !.errorMessage = "Failed to scrape URL"],
                    cached |-> Undefined],
                   [lead |-> [l EXCEPT !.enrichmentStatus = "completed",
                                       !.email = "found@site"],
                    cached |-> "page with a@b.co"],
                   [lead |-> [l EXCEPT !.enrichmentStatus = "completed"],
                    cached |-> "page text"] }
          : l \in RowLeads(p) }

\* the selection handleFindEmails leaves (part_000:121-128): the results come
\* valid-domain leads first, then the skipped ones (enrichment.ts:335-342)
AutoSelected(ls) ==
    LET order == ValidLeadsOf(ls) \o SkippedLeadsOf(ls) IN
    LeadsWithEmails([n \in 1..Len(order) |-> [lead |-> order[n]]], ls, <<>>)

\* two CSV rows naming the same website (the upload keeps both, part_002:
\* 119-170): every progress report of phase 1 lands on the first of them
\* (findIndex by website, part_000:111), so the first row holds a result and
\* the second row is still as ingested
SharedSiteLists(ready) ==
    { <<r, [lead |-> processRow(2, SiteOf(1), TRUE, "bad tld", Undefined),
            cached |-> Undefined]>> :
        r \in {x \in ReviewRows(1, ready) : x.lead.domainValidation = "valid"} }

ReviewLists(ready) ==
    UNION { { rs \in [1..n -> UNION {ReviewRows(p, ready) : p \in 1..n}] :
                \A p \in 1..n : rs[p] \in ReviewRows(p, ready) }
          : n \in 1..MaxReviewLeads }
      \cup SharedSiteLists(ready)

InitReview ==
    /\ apiKeys \in BOOLEAN
    /\ serverHasEnvVars \in BOOLEAN
    /\ ~(apiKeys /\ serverHasEnvVars)
    /\ stage = "review"
    /\ error = Undefined
    /\ \E rs \in ReviewLists(apiKeys \/ serverHasEnvVars) :
          /\ leads = [p \in 1..Len(rs) |-> rs[p].lead]
          /\ scrapedContent =
                [w \in Sites |->
                    IF \E p \in 1..Len(rs) : rs[p].lead.website = w /\ Truthy(rs[p].cached)
                    THEN (CHOOSE c \in {rs[p].cached : p \in {q \in 1..Len(rs) :
                                            rs[q].lead.website = w /\ Truthy(rs[q].cached)}} : TRUE)
                    ELSE Undefined]
          /\ selectedLeads = AutoSelected([p \in 1..Len(rs) |-> rs[p].lead])
    /\ processingIndex = 0
    /\ config \in [maxConcurrency : {1}]
    /\ pc1 = "done"
    /\ argLeads = <<>>
    /\ validLeads = <<>>
    /\ i = 0
    /\ tasks = <<>>
    /\ results = <<>>
    /\ usage = NoUsage
    /\ rejection = Undefined
    /\ batchCount = 0
    /\ calls = {}
    /\ progress = <<>>
    /\ openCalls = <<>>
    /\ Phase2Idle
    /\ LibIdle

-----------------------------------------------------------------------------
(* Actions of the review stage and of phase 2 *)

Phase2Step(f) ==
    /\ Store2(f)
    /\ UNCHANGED <<libVars, openCalls, moduleVars, stage, error, selectedLeads, scrapedContent,
                   config, phase1Vars, progress, leads2>>

\* Set.prototype.delete
SetDelete(set, x) == Filter(set, Range(set) \ {x})

\* handleToggleSelect (part_000:189-199)
HandleToggleSelect ==
    /\ stage = "review" /\ pc2 = "idle"
    /\ \E index \in 0..(Len(leads) - 1) :
          selectedLeads' = IF index \in Range(selectedLeads)
                           THEN SetDelete(selectedLeads, index)
                           ELSE SetAdd(selectedLeads, index)
    /\ UNCHANGED <<libVars, openCalls, moduleVars, stage, error, leads, processingIndex, scrapedContent,
                   config, phase1Vars, rejection, calls, progress, phase2Vars>>

\* handleGenerateIcebreakers up to its await (part_000:137-145) and
\* generateIcebreakersForLeads up to its first await (enrichment.ts:356-384)
HandleGenerateIcebreakers ==
    /\ stage = "review" /\ pc2 = "idle"
    /\ LET selectedLeadsList ==
               [n \in 1..Len(selectedLeads) |-> leads[selectedLeads[n] + 1]]
           f == [ pc |-> "running",
                  app |-> [leads |-> leads, processingIndex |-> 0],
                  i |-> 0, step |-> "none", content |-> "", main |-> NoScrape,
                  results |-> <<>>, usage |-> NoUsage, calls |-> calls ]
       IN /\ leads2' = selectedLeadsList
          /\ Store2(LoopHead2(f, selectedLeadsList, scrapedContent, 0))
    /\ stage' = "enriching"
    /\ error' = Undefined
    /\ rejection' = Undefined
    /\ UNCHANGED <<libVars, openCalls, moduleVars, selectedLeads, scrapedContent, config,
                   phase1Vars, progress>>

\* scrapeForContact in phase 2: the main-page scrape answers (lines 177-191)
IcebreakerScrapeMainReturns ==
    /\ pc2 = "running" /\ step2 = "main"
    /\ \E a \in scrapeUrl :
         /\ rejection' = IF a.thrown THEN a.message ELSE rejection
         /\ IF a.thrown
            THEN Phase2Step(Throws2(Frame2, "scrapeForContact", a.message))
            ELSE IF a.value.success /\ Truthy(a.value.markdown)
                       /\ containsEmail(a.value.markdown)
            THEN Phase2Step(AfterScrape2(Frame2, leads2, scrapedContent, a.value))
            ELSE Phase2Step([Frame2 EXCEPT
                     !.step = "contact1", !.main = a.value,
                     !.calls = Request(@, "scrape", leads2[i2 + 1].website)])

ContactStep == [p \in 1..Len(contactPaths) |-> "contact" \o ToString(p)]

\* scrapeForContact in phase 2: a contact-page scrape answers (lines 188-202)
IcebreakerContactReturns ==
    /\ pc2 = "running" /\ step2 \in Range(ContactStep)
    /\ \E a \in scrapeUrl :
         LET p == CHOOSE q \in 1..Len(contactPaths) : ContactStep[q] = step2 IN
         IF ~a.thrown /\ a.value.success /\ Truthy(a.value.markdown)
               /\ containsEmail(a.value.markdown)
         THEN Phase2Step(AfterScrape2(Frame2, leads2, scrapedContent, a.value))
         ELSE IF p < Len(contactPaths)
         THEN Phase2Step([Frame2 EXCEPT
                  !.step = ContactStep[p + 1],
                  !.calls = Request(@, "scrape", leads2[i2 + 1].website)])
         ELSE Phase2Step(AfterScrape2(Frame2, leads2, scrapedContent, main2))
    /\ UNCHANGED rejection

\* generateIcebreaker answers (lines 384-420)
GenerateReturns ==
    /\ pc2 = "running" /\ step2 = "generate"
    /\ \E a \in generateIcebreaker :
         /\ rejection' = IF a.thrown THEN a.message ELSE rejection
         /\ IF a.thrown
            THEN Phase2Step(Throws2(Frame2, "generateIcebreaker", a.message))
            ELSE Phase2Step(Push2(Frame2, leads2, scrapedContent, a.value))

\* handleGenerateIcebreakers after its await (part_000:177-181)
IcebreakersSettle ==
    /\ pc2 \in {"resolved", "rejected"}
    /\ IF pc2 = "resolved"
       THEN /\ stage' = "complete"
            /\ error' = error
            /\ pc2' = "done"
       ELSE /\ error' = rejection
            /\ stage' = "review"
            /\ pc2' = "idle"
    /\ UNCHANGED <<libVars, openCalls, moduleVars, leads, selectedLeads, processingIndex, scrapedContent,
                   config, phase1Vars, rejection, calls, progress, leads2, i2, step2, content2,
                   main2, results2, usage2>>

\* handleSkipToExport (part_000:185-187)
HandleSkipToExport ==
    /\ stage = "review" /\ pc2 = "idle"
    /\ stage' = "complete"
    /\ UNCHANGED <<libVars, openCalls, moduleVars, error, leads, selectedLeads, processingIndex,
                   scrapedContent, config, phase1Vars, rejection, calls, progress, phase2Vars>>

NextReview ==
    \/ HandleToggleSelect
    \/ HandleGenerateIcebreakers
    \/ IcebreakerScrapeMainReturns
    \/ IcebreakerContactReturns
    \/ GenerateReturns
    \/ IcebreakersSettle
    \/ HandleSkipToExport

SpecReview == InitReview /\ [][NextReview]_vars

\* C12: a lead's icebreaker is only set in phase 2 and only for a selected
\* lead: whenever a step of the review stage or of phase 2 gives a lead of the
\* App's list a new icebreaker text, that lead's index is in the selection the
\* user made (also when two leads share a website).
C12_IcebreakerOnlyForSelected ==
    [][ \A p \in 1..Len(leads) :
          (Truthy(leads'[p].icebreaker) /\ leads'[p].icebreaker # leads[p].icebreaker)
             => (p - 1) \in Range(selectedLeads) ]_vars

\* C4: in phase 2, with the service initialized, an exception thrown by Scrape
\* or GenerateIcebreaker for one lead is caught at that lead's boundary: the
\* call never rejects, and when it settles it has returned one result per
\* supplied lead.
C4_Phase2ThrowIsolated ==
    isEnrichmentReady =>
       /\ pc2 # "rejected"
       /\ pc2 \in {"resolved", "done"} => Len(results2) = Len(leads2)

-----------------------------------------------------------------------------
(* Strings.  A JavaScript string is the sequence of its characters, each a  *)
(* one-character string; the operators below are the String methods and    *)
(* the regular expressions the library functions use.                      *)

LowerSeq == <<"a","b","c","d","e","f","g","h","i","j","k","l","m",
              "n","o","p","q","r","s","t","u","v","w","x","y","z">>
UpperSeq == <<"A","B","C","D","E","F","G","H","I","J","K","L","M",
              "N","O","P","Q","R","S","T","U","V","W","X","Y","Z">>
Lower == Range(LowerSeq)             \* [a-z]
Upper == Range(UpperSeq)             \* [A-Z]
Digit == {"0","1","2","3","4","5","6","7","8","9"}
AlNum == Lower \cup Digit            \* [a-z0-9]
WhiteSpace == {" ", "\t", "\n", "\r"}

AllIn(s, class) == \A k \in 1..Len(s) : s[k] \in class

\* String.prototype.toLowerCase
toLowerCase(s) ==
    [k \in 1..Len(s) |->
        IF s[k] \in Upper
        THEN LowerSeq[CHOOSE n \in 1..Len(UpperSeq) : UpperSeq[n] = s[k]]
        ELSE s[k]]

\* String.prototype.trim
RECURSIVE trimStart(_)
trimStart(s) ==
    IF s # <<>> /\ Head(s) \in WhiteSpace THEN trimStart(Tail(s)) ELSE s

RECURSIVE trimEnd(_)
trimEnd(s) ==
    IF s # <<>> /\ s[Len(s)] \in WhiteSpace THEN trimEnd(SubSeq(s, 1, Len(s) - 1)) ELSE s

trim(s) == trimEnd(trimStart(s))

\* String.prototype.startsWith / endsWith / includes
startsWith(s, p) == Len(s) >= Len(p) /\ SubSeq(s, 1, Len(p)) = p
endsWith(s, p) == Len(s) >= Len(p) /\ SubSeq(s, Len(s) - Len(p) + 1, Len(s)) = p
includes(s, p) ==
    \E k \in 0..(Len(s) - Len(p)) : SubSeq(s, k + 1, k + Len(p)) = p

\* s.replace(/^p/, '') for a literal prefix p
dropPrefix(s, p) == IF startsWith(s, p) THEN SubSeq(s, Len(p) + 1, Len(s)) ELSE s

\* s.split(c) for a one-character separator c
RECURSIVE split(_, _)
split(s, c) ==
    IF \A k \in 1..Len(s) : s[k] # c THEN <<s>>
    ELSE LET k == CHOOSE n \in 1..Len(s) : s[n] = c /\ \A m \in 1..(n - 1) : s[m] # c
         IN <<SubSeq(s, 1, k - 1)>> \o split(SubSeq(s, k + 1, Len(s)), c)

\* the last element of a non-empty array
Last(a) == a[Len(a)]

\* the concatenation of the strings of a sequence
RECURSIVE Concat(_)
Concat(ss) == IF ss = <<>> THEN <<>> ELSE Head(ss) \o Concat(Tail(ss))

-----------------------------------------------------------------------------
(* validateDomain (src/src/agent/crawl.ts)                                  *)

\* crawl.ts:12-40   the entries of VALID_TLDS the inputs below can spell
VALID_TLDS == { <<"c","o">>, <<"u","k">>, <<"c","o","m">> }

\* crawl.ts:45-90   the entries of MULTI_PART_TLDS the inputs below can spell
MULTI_PART_TLDS == { <<"c","o",".","u","k">>, <<"c","o","m",".","c","o">> }

\* [a-z0-9]([a-z0-9-]*[a-z0-9])?
IsLabel(s) ==
    /\ s # <<>>
    /\ AllIn(s, AlNum \cup {"-"})
    /\ s[1] \in AlNum /\ s[Len(s)] \in AlNum

\* crawl.ts:126   /^label(\.label)*\.[a-z]{2,}$/ : the dots delimit the
\* labels, the last part is the [a-z]{2,} and every part before it a label
domainRegex(s) ==
    LET parts == split(s, ".") IN
    /\ Len(parts) >= 2
    /\ \A k \in 1..(Len(parts) - 1) : IsLabel(parts[k])
    /\ Len(Last(parts)) >= 2 /\ AllIn(Last(parts), Lower)

\* crawl.ts:129   /^[a-z0-9.-]+\.[a-z]{2,}$/ : [a-z]{2,} holds no dot, so the
\* \. is the last dot of the string
lenientRegex(s) ==
    LET parts == split(s, ".") IN
    /\ Len(parts) >= 2
    /\ Len(s) - Len(Last(parts)) - 1 >= 1
    /\ AllIn(SubSeq(s, 1, Len(s) - Len(Last(parts)) - 1), AlNum \cup {".", "-"})
    /\ Len(Last(parts)) >= 2 /\ AllIn(Last(parts), Lower)

Invalid(cleaned, tld, reason) ==
    [isValid |-> FALSE, domain |-> cleaned, tld |-> tld, error |-> reason]

Valid(cleaned, tld) ==
    [isValid |-> TRUE, domain |-> cleaned, tld |-> tld, error |-> Undefined]

\* crawl.ts:105-117   the normalisation of the input
cleanDomainInput(input) ==
    LET c1 == toLowerCase(trim(input))
        c2 == IF startsWith(c1, <<"h","t","t","p",":","/","/">>)
              THEN dropPrefix(c1, <<"h","t","t","p",":","/","/">>)
              ELSE dropPrefix(c1, <<"h","t","t","p","s",":","/","/">>)
        c3 == dropPrefix(c2, <<"w","w","w",".">>)
        c4 == split(split(split(c3, "/")[1], "?")[1], "#")[1]
    IN split(c4, ":")[1]

\* crawl.ts:103-176
validateDomain(input) ==
    LET cleaned == cleanDomainInput(input)
        parts   == split(cleaned, ".")
        tld     == Last(parts)
        possibleMultiTld ==
            IF Len(parts) >= 2 THEN parts[Len(parts) - 1] \o <<".">> \o tld ELSE <<>>
    IN
    IF cleaned = <<>> \/ Len(cleaned) < 3
    THEN Invalid(cleaned, <<>>, "Domain too short")
    ELSE IF ~domainRegex(cleaned) /\ ~lenientRegex(cleaned)
    THEN Invalid(cleaned, <<>>, "Invalid domain format")
    ELSE IF includes(cleaned, <<".", ".">>) \/ includes(cleaned, <<"-", "-">>)
    THEN Invalid(cleaned, <<>>, "Invalid domain format (consecutive dots or hyphens)")
    ELSE IF startsWith(cleaned, <<"-">>) \/ endsWith(cleaned, <<"-">>)
    THEN Invalid(cleaned, <<>>, "Domain cannot start or end with hyphen")
    ELSE IF Len(parts) < 2
    THEN Invalid(cleaned, <<>>, "No TLD found")
    ELSE IF Len(parts) >= 3 /\ possibleMultiTld \in MULTI_PART_TLDS
    THEN Valid(cleaned, possibleMultiTld)
    ELSE IF tld \in VALID_TLDS
    THEN Valid(cleaned, tld)
    ELSE IF Len(tld) >= 2 /\ Len(tld) <= 10 /\ tld # <<>> /\ AllIn(tld, Lower)
    THEN Valid(cleaned, tld)
    ELSE Invalid(cleaned, tld, "Invalid or unrecognized TLD")

\* the state of the App component before any upload (part_000:37-46), with
\* the enrichment module as loaded
PipelineFresh ==
    /\ apiKeys = FALSE
    /\ serverHasEnvVars = FALSE
    /\ stage = "loading"
    /\ error = Undefined
    /\ leads = <<>>
    /\ selectedLeads = <<>>
    /\ processingIndex = 0
    /\ scrapedContent = [w \in Sites |-> Undefined]
    /\ config \in [maxConcurrency : {1}]
    /\ pc1 = "idle"
    /\ argLeads = <<>>
    /\ validLeads = <<>>
    /\ i = 0
    /\ tasks = <<>>
    /\ results = <<>>
    /\ usage = NoUsage
    /\ rejection = Undefined
    /\ batchCount = 0
    /\ calls = {}
    /\ progress = <<>>
    /\ openCalls = <<>>
    /\ Phase2Idle

NoCall == [fn |-> "none"]

\* the website strings validateDomain is applied to: up to MaxChunks pieces
MaxChunks == 4

DomainChunks ==
    { <<"h","t","t","p",":","/","/">>, <<"w","w","w",".">>, <<"a">>, <<"A">>,
      <<"-">>, <<".">>, <<".","c","o">>, <<".","u","k">>, <<" ">>, <<"/">>, <<":">> }

StringsOf(chunks, n) ==
    { Concat(cs) : cs \in UNION { [1..m -> chunks] : m \in 0..n } }

InitDomain ==
    /\ PipelineFresh
    /\ \E x \in StringsOf(DomainChunks, MaxChunks) :
          pending = [fn |-> "validateDomain", arg |-> x]
    /\ trail = <<>>

\* validateDomain is applied to the pending argument; its first result's
\* domain is then handed to validateDomain again
ApplyValidateDomain ==
    /\ pending.fn = "validateDomain"
    /\ LET ret == validateDomain(pending.arg) IN
         /\ trail' = Append(trail, [fn |-> "validateDomain", arg |-> pending.arg, ret |-> ret])
         /\ pending' = IF trail = <<>>
                       THEN [fn |-> "validateDomain", arg |-> ret.domain]
                       ELSE NoCall
    /\ UNCHANGED pipelineVars

NextDomain == ApplyValidateDomain

SpecDomain == InitDomain /\ [][NextDomain]_vars

\* C14: validateDomain is idempotent on its domain output: applied to the
\* domain it returned, it returns that same domain.
C14_DomainIdempotent ==
    Len(trail) = 2 => trail[2].ret.domain = trail[1].ret.domain

\* the shape label(.label)+ : at least two labels, each non-empty, made of
\* letters, digits and hyphens, with no hyphen at either end
WellFormedDomain(d) ==
    LET labels == split(d, ".") IN
    /\ Len(labels) >= 2
    /\ \A k \in 1..Len(labels) :
          /\ labels[k] # <<>>
          /\ AllIn(labels[k], AlNum \cup {"-"})
          /\ labels[k][1] # "-" /\ Last(labels[k]) # "-"

\* C15: validateDomain answers isValid = true only for a domain of the shape
\* label(.label)+ whose labels are non-empty and alphanumeric with hyphens
\* only in their interior.
C15_ValidOnlyWellFormed ==
    \A n \in 1..Len(trail) :
        (trail[n].fn = "validateDomain" /\ trail[n].ret.isValid)
           => WellFormedDomain(trail[n].ret.domain)

-----------------------------------------------------------------------------
(* CSV ingestion (src/src/agent/csvProcessor.ts).  A CSV text is taken as    *)
(* csv-parse delivers it: the header names and, per data row, one trimmed    *)
(* cell per header name.  An object is the list of its <<key, value>>        *)
(* entries in insertion order; its string values and keys are character      *)
(* sequences and None is the value undefined.                                *)

None == <<Undefined>>

\* obj[key], undefined when the key is absent
Get(obj, key) ==
    IF \E n \in 1..Len(obj) : obj[n][1] = key
    THEN obj[CHOOSE n \in 1..Len(obj) : obj[n][1] = key][2]
    ELSE None

HasKey(obj, key) == \E n \in 1..Len(obj) : obj[n][1] = key

\* obj[key] = value: an existing key keeps its place
Put(obj, key, value) ==
    IF HasKey(obj, key)
    THEN [n \in 1..Len(obj) |-> IF obj[n][1] = key THEN <<key, value>> ELSE obj[n]]
    ELSE Append(obj, <<key, value>>)

\* { ...a, ...b }
RECURSIVE Spread(_, _)
Spread(a, b) == IF b = <<>> THEN a ELSE Spread(Put(a, Head(b)[1], Head(b)[2]), Tail(b))

\* the object without the keys of drop
Omit(obj, drop) == Filter(obj, {e \in Range(obj) : e[1] \notin drop})

Keys(obj) == [n \in 1..Len(obj) |-> obj[n][1]]

\* a string value that is neither undefined nor empty
TruthyStr(v) == v # None /\ v # <<>>

\* csvProcessor.ts:15-20   columns: true
Records(csv) ==
    [r \in 1..Len(csv.rows) |->
        [k \in 1..Len(csv.header) |-> <<csv.header[k], csv.rows[r][k]>>]]

\* csvProcessor.ts:52-56
websiteAliases ==
    << <<"w","e","b","s","i","t","e">>, <<"u","r","l">>, <<"d","o","m","a","i","n">>, <<"s","i","t","e">>, <<"c","o","m","p","a","n","y","_","u","r","l">>,
       <<"c","o","m","p","a","n","y","_","w","e","b","s","i","t","e">>, <<"c","o","m","p","a","n","y","u","r","l">>, <<"c","o","m","p","a","n","y","w","e","b","s","i","t","e">>, <<"w","e","b">>,
       <<"h","o","m","e","p","a","g","e">> >>

\* csvProcessor.ts:58   c.toLowerCase().replace(/[_\s-]/g, '')
normalizeColumn(c) ==
    LET l == toLowerCase(c) IN
    Filter(l, Range(l) \ ({"_", "-"} \cup WhiteSpace))

\* csvProcessor.ts:51-68
findWebsiteColumn(columns) ==
    LET normalizedColumns == [k \in 1..Len(columns) |-> normalizeColumn(columns[k])]
        hits == {a \in 1..Len(websiteAliases) :
                    \E k \in 1..Len(columns) : normalizedColumns[k] = websiteAliases[a]}
    IN IF hits = {} THEN None
       ELSE LET a == CHOOSE x \in hits : \A y \in hits : x <= y
                index == CHOOSE k \in 1..Len(columns) :
                            /\ normalizedColumns[k] = websiteAliases[a]
                            /\ \A m \in 1..(k - 1) : normalizedColumns[m] # websiteAliases[a]
            IN columns[index]

\* csvProcessor.ts:33-44   the Lead of one record whose website key is known;
\* extraFields without entries stands for undefined, which its only reader
\* (toCSV, line 81) replaces by {}
LeadOf(record, websiteKey) ==
    LET rest == Omit(record, {websiteKey, <<"c","o","m","p","a","n","y">>, <<"n","a","m","e">>})
        extraFields == Filter(rest, {e \in Range(rest) : TruthyStr(e[2])})
    IN << <<<<"w","e","b","s","i","t","e">>, Get(record, websiteKey)>>,
          <<<<"c","o","m","p","a","n","y">>, Get(record, <<"c","o","m","p","a","n","y">>)>>,
          <<<<"n","a","m","e">>,    Get(record, <<"n","a","m","e">>)>>,
          <<<<"e","x","t","r","a","F","i","e","l","d","s">>, extraFields>> >>

\* csvProcessor.ts:14-46   records.map throws at the first record without a
\* website key
parseCSV(csv) ==
    LET records == Records(csv) IN
    IF \E r \in 1..Len(records) : findWebsiteColumn(Keys(records[r])) = None
    THEN Thrown("CSV must contain a website column", <<>>)
    ELSE Returned([r \in 1..Len(records) |->
                      LeadOf(records[r], findWebsiteColumn(Keys(records[r])))])

\* csvProcessor.ts:105-122   (the message is kept as one piece of text)
initializeLead(lead) ==
    LET validation == validateDomain(Get(lead, <<"w","e","b","s","i","t","e">>)) IN
    Spread(lead,
           << <<<<"e","n","r","i","c","h","m","e","n","t","S","t","a","t","u","s">>,
                IF validation.isValid THEN <<"p","e","n","d","i","n","g">> ELSE <<"s","k","i","p","p","e","d">>>>,
              <<<<"d","o","m","a","i","n","V","a","l","i","d","a","t","i","o","n">>, validation>>,
              <<<<"e","r","r","o","r","M","e","s","s","a","g","e">>,
                IF validation.isValid THEN None
                ELSE <<"Invalid domain: " \o validation.error>>>> >>)

initializeLeads(ls) == [n \in 1..Len(ls) |-> initializeLead(ls[n])]

\* the elements of an array in first-occurrence order (new Set(...))
RECURSIVE Unique(_)
Unique(s) ==
    IF s = <<>> THEN <<>>
    ELSE LET u == Unique(SubSeq(s, 1, Len(s) - 1)) IN
         IF Last(s) \in Range(u) THEN u ELSE Append(u, Last(s))

\* csvProcessor.ts:73-100   the table handed to stringify: the ordered
\* columns and, per lead, one cell per column ('' for undefined)
toCSV(ls) ==
    IF Len(ls) = 0 THEN [columns |-> <<>>, rows |-> <<>>]
    ELSE
    LET flattenedLeads ==
            [n \in 1..Len(ls) |->
                Spread(Omit(ls[n], {<<"e","x","t","r","a","F","i","e","l","d","s">>, <<"d","o","m","a","i","n","V","a","l","i","d","a","t","i","o","n">>}),
                       Get(ls[n], <<"e","x","t","r","a","F","i","e","l","d","s">>))]
        allColumns == Unique(Concat([n \in 1..Len(ls) |-> Keys(flattenedLeads[n])]))
        enrichedColumns == << <<"e","m","a","i","l">>, <<"i","c","e","b","r","e","a","k","e","r">>, <<"e","n","r","i","c","h","m","e","n","t","S","t","a","t","u","s">>,
                              <<"e","r","r","o","r","M","e","s","s","a","g","e">> >>
        originalColumns ==
            Filter(allColumns, Range(allColumns) \ Range(enrichedColumns))
        orderedColumns ==
            originalColumns \o Filter(enrichedColumns, Range(allColumns))
    IN [ columns |-> orderedColumns,
         rows |-> [n \in 1..Len(ls) |->
                      [k \in 1..Len(orderedColumns) |->
                          IF TruthyStr(Get(flattenedLeads[n], orderedColumns[k]))
                          THEN Get(flattenedLeads[n], orderedColumns[k])
                          ELSE <<>>]] ]

\* the JavaScript string a character sequence stands for
RECURSIVE StringOf(_)
StringOf(s) == IF s = <<>> THEN "" ELSE Head(s) \o StringOf(Tail(s))

\* part_002:112-177   processWithSelectedColumns on the parsed file
\* {headers, rows} with the selected column indexes (-1: none selected);
\* the company column does not enter the lead's status, domain or e-mail
processWithSelectedColumns(parsedCSV, selectedWebsiteCol, selectedEmailCol) ==
    LET rowLead(r) ==
            LET row == parsedCSV.rows[r]
                websiteValue == IF selectedWebsiteCol # -1
                                THEN StringOf(row[selectedWebsiteCol + 1]) ELSE Undefined
                existingEmail == IF selectedEmailCol # -1
                                 THEN StringOf(trim(row[selectedEmailCol + 1])) ELSE Undefined
                validation == IF Truthy(websiteValue)
                              THEN validateDomain(row[selectedWebsiteCol + 1])
                              ELSE Invalid(<<>>, <<>>, "No domain provided")
            IN [ kept |-> rowKept(websiteValue, existingEmail),
                 lead |-> processRow(r, websiteValue, validation.isValid,
                                     validation.error, existingEmail) ]
        kept == Filter([r \in 1..Len(parsedCSV.rows) |-> rowLead(r)],
                       {rowLead(r) : r \in {x \in 1..Len(parsedCSV.rows) : rowLead(x).kept}})
    IN [n \in 1..Len(kept) |-> kept[n].lead]

-----------------------------------------------------------------------------
(* The ingestion functions applied to CSV files *)

MaxColumns == 2     \* most columns of a CSV file
MaxCsvRows == 1     \* most data rows of a CSV file

HeaderNames ==
    { <<"w","e","b","s","i","t","e">>, <<"W","e","b","-","S","i","t","e">>, <<"u","r","l">>, <<"e","m","a","i","l">>, <<"e","n","r","i","c","h","m","e","n","t","S","t","a","t","u","s">> }

CellValues == { <<>>, <<"a",".","c","o">>, <<"i","n","@","c","s","v">> }

\* the parsed files: distinct header names, every row as wide as the header
CsvFiles ==
    UNION { { [header |-> h, rows |-> rs] :
                h \in {x \in [1..n -> HeaderNames] :
                          \A a, b \in 1..n : a # b => x[a] # x[b]},
                rs \in [1..m -> [1..n -> CellValues]] }
          : n \in 1..MaxColumns, m \in 0..MaxCsvRows }

InitIngest ==
    /\ PipelineFresh
    /\ \/ \E csv \in CsvFiles : pending = [fn |-> "parseCSV", arg |-> csv]
       \/ \E csv \in CsvFiles :
            \E w, e \in -1..(Len(csv.header) - 1) :
               pending = [fn |-> "processWithSelectedColumns", arg |-> csv,
                          selectedWebsiteCol |-> w, selectedEmailCol |-> e]
    /\ trail = <<>>

Applied(fn, arg, ret) == Append(trail, [fn |-> fn, arg |-> arg, ret |-> ret])

\* parseCSV is applied; its leads go on to initializeLeads
ApplyParseCSV ==
    /\ pending.fn = "parseCSV"
    /\ LET ret == parseCSV(pending.arg) IN
         /\ trail' = Applied("parseCSV", pending.arg, ret)
         /\ pending' = IF ret.thrown THEN NoCall
                       ELSE [fn |-> "initializeLeads", arg |-> ret.value]
    /\ UNCHANGED pipelineVars

\* initializeLeads is applied; its leads go on to toCSV
ApplyInitializeLeads ==
    /\ pending.fn = "initializeLeads"
    /\ LET ret == initializeLeads(pending.arg) IN
         /\ trail' = Applied("initializeLeads", pending.arg, ret)
         /\ pending' = [fn |-> "toCSV", arg |-> ret]
    /\ UNCHANGED pipelineVars

ApplyToCSV ==
    /\ pending.fn = "toCSV"
    /\ trail' = Applied("toCSV", pending.arg, toCSV(pending.arg))
    /\ pending' = NoCall
    /\ UNCHANGED pipelineVars

\* part_002:112-114   nothing happens unless a website or an e-mail column
\* is selected
ApplyProcessWithSelectedColumns ==
    /\ pending.fn = "processWithSelectedColumns"
    /\ ~(pending.selectedWebsiteCol = -1 /\ pending.selectedEmailCol = -1)
    /\ trail' = Applied("processWithSelectedColumns", pending.arg,
                        processWithSelectedColumns(pending.arg, pending.selectedWebsiteCol,
                                                   pending.selectedEmailCol))
    /\ pending' = NoCall
    /\ UNCHANGED pipelineVars

NextIngest ==
    \/ ApplyParseCSV
    \/ ApplyInitializeLeads
    \/ ApplyToCSV
    \/ ApplyProcessWithSelectedColumns

SpecIngest == InitIngest /\ [][NextIngest]_vars

\* the applications of fn made so far
AppliedOf(fn) == {n \in 1..Len(trail) : trail[n].fn = fn}

\* C13 (as stated): right after ingestion every lead whose domainValidation
\* says isValid = false is skipped with an errorMessage, and every lead with
\* a valid domain is pending, for initializeLeads and for the upload with an
\* e-mail column.
C13_StatusFollowsDomain ==
    /\ \A n \in AppliedOf("initializeLeads") : \A k \in 1..Len(trail[n].ret) :
          LET l == trail[n].ret[k] IN
          IF Get(l, <<"d","o","m","a","i","n","V","a","l","i","d","a","t","i","o","n">>).isValid
          THEN Get(l, <<"e","n","r","i","c","h","m","e","n","t","S","t","a","t","u","s">>) = <<"p","e","n","d","i","n","g">>
          ELSE /\ Get(l, <<"e","n","r","i","c","h","m","e","n","t","S","t","a","t","u","s">>) = <<"s","k","i","p","p","e","d">>
               /\ TruthyStr(Get(l, <<"e","r","r","o","r","M","e","s","s","a","g","e">>))
    /\ \A n \in AppliedOf("processWithSelectedColumns") : \A k \in 1..Len(trail[n].ret) :
          LET l == trail[n].ret[k] IN
          /\ l.domainValidation = "valid" => l.enrichmentStatus = "pending"
          /\ l.domainValidation = "invalid" =>
                l.enrichmentStatus = "skipped" /\ Truthy(l.errorMessage)

\* C13 (amended): the same, for the leads whose row supplies no e-mail; a
\* lead whose row supplies an e-mail (with an '@') is completed whatever its
\* domain, and keeps the errorMessage of an invalid domain.
C13_StatusFollowsDomainUnlessEmail ==
    /\ \A n \in AppliedOf("initializeLeads") : \A k \in 1..Len(trail[n].ret) :
          LET l == trail[n].ret[k] IN
          IF Get(l, <<"d","o","m","a","i","n","V","a","l","i","d","a","t","i","o","n">>).isValid
          THEN Get(l, <<"e","n","r","i","c","h","m","e","n","t","S","t","a","t","u","s">>) = <<"p","e","n","d","i","n","g">>
          ELSE /\ Get(l, <<"e","n","r","i","c","h","m","e","n","t","S","t","a","t","u","s">>) = <<"s","k","i","p","p","e","d">>
               /\ TruthyStr(Get(l, <<"e","r","r","o","r","M","e","s","s","a","g","e">>))
    /\ \A n \in AppliedOf("processWithSelectedColumns") : \A k \in 1..Len(trail[n].ret) :
          LET l == trail[n].ret[k] IN
          /\ Truthy(l.email) => l.enrichmentStatus = "completed"
          /\ (~Truthy(l.email) /\ l.domainValidation = "valid")
                => l.enrichmentStatus = "pending"
          /\ (~Truthy(l.email) /\ l.domainValidation # "valid")
                => l.enrichmentStatus = "skipped" /\ l.domainValidation = "invalid"
          /\ l.domainValidation = "invalid" => Truthy(l.errorMessage)

\* the upload has produced a lead with a supplied e-mail and an invalid
\* domain: completed, with the errorMessage of the domain
C13_Witness ==
    /\ \E n \in AppliedOf("processWithSelectedColumns") : \E k \in 1..Len(trail[n].ret) :
          /\ trail[n].ret[k].domainValidation = "invalid"
          /\ trail[n].ret[k].enrichmentStatus = "completed"
          /\ Truthy(trail[n].ret[k].errorMessage)

\* no header name is a website alias once lower-cased and freed of '_', '-'
\* and blanks
NoWebsiteColumn(header) ==
    \A k \in 1..Len(header) : normalizeColumn(header[k]) \notin Range(websiteAliases)

\* C16: parseCSV throws whenever no column name of the header matches the
\* website alias set, also for a CSV with a header and no data row.
C16_ThrowsWithoutWebsiteColumn ==
    \A n \in AppliedOf("parseCSV") :
        NoWebsiteColumn(trail[n].arg.header) => trail[n].ret.thrown

\* the cell of the exported table in row r under the column named c ('' when
\* the table has no such column)
Exported(table, r, c) ==
    IF \E k \in 1..Len(table.columns) : table.columns[k] = c
    THEN table.rows[r][CHOOSE k \in 1..Len(table.columns) : table.columns[k] = c]
    ELSE <<>>

\* C17: toCSV(initializeLeads(parseCSV(csv))) holds, for every row and every
\* original column, the original value of that column (the website column is
\* exported under the name website).
C17_RoundTripKeepsValues ==
    (Len(trail) = 3 /\ trail[3].fn = "toCSV") =>
        LET csv == trail[1].arg
            websiteKey == findWebsiteColumn(csv.header)
        IN \A r \in 1..Len(csv.rows) : \A k \in 1..Len(csv.header) :
              Exported(trail[3].ret, r,
                       IF csv.header[k] = websiteKey THEN <<"w","e","b","s","i","t","e">> ELSE csv.header[k])
                 = csv.rows[r][k]

-----------------------------------------------------------------------------
(* E-mail extraction and ranking (src/unnamed/part_001) *)

Letter == Lower \cup Upper                                   \* [a-zA-Z]
LocalChar == Letter \cup Digit \cup {".", "_", "%", "+", "-"}   \* [a-zA-Z0-9._%+-]
HostChar == Letter \cup Digit \cup {".", "-"}                \* [a-zA-Z0-9.-]

\* the last index of the longest run of class characters of s that starts at
\* from (from - 1 when there is none): a greedy class+ or class*
RunEnd(s, from, class) ==
    LET stops == {k \in from..Len(s) : s[k] \notin class} IN
    IF stops = {} THEN Len(s)
    ELSE (CHOOSE k \in stops : \A m \in stops : k <= m) - 1

\* part_001:14   emailPattern tried at index start: the index its match ends
\* at, 0 when it does not match there.  The local run must end at an '@';
\* the host run is given back from the right up to the last '.' that is
\* followed by two letters or more, and [a-zA-Z]{2,} then takes every letter.
MatchAt(s, start) ==
    LET le == RunEnd(s, start, LocalChar)
        de == RunEnd(s, le + 2, HostChar)
        dots == {k \in (le + 3)..de : s[k] = "." /\ RunEnd(s, k + 1, Letter) >= k + 2}
    IN IF le < start \/ le + 1 > Len(s) \/ s[le + 1] # "@" \/ dots = {} THEN 0
       ELSE RunEnd(s, (CHOOSE k \in dots : \A m \in dots : m <= k) + 1, Letter)

\* content.match(emailPattern) with the g flag, from index pos on: the
\* leftmost index the pattern matches at, then on from the end of that match.
\* A match never starts inside a local run that began at pos or later (the
\* pattern would have matched at the start of the run), so only the starts of
\* runs are tried.
RECURSIVE MatchAll(_, _)
MatchAll(s, pos) ==
    LET starts == {p \in pos..Len(s) :
                     /\ s[p] \in LocalChar
                     /\ p = pos \/ s[p - 1] \notin LocalChar
                     /\ MatchAt(s, p) # 0}
        first == CHOOSE p \in starts : \A q \in starts : p <= q
    IN IF starts = {} THEN <<>>
       ELSE <<SubSeq(s, first, MatchAt(s, first))>> \o MatchAll(s, MatchAt(s, first) + 1)

\* part_001:29-33
genericPrefixes ==
    << <<"n","o","r","e","p","l","y">>, <<"n","o","-","r","e","p","l","y">>, <<"d","o","n","o","t","r","e","p","l","y">>, <<"d","o","-","n","o","t","-","r","e","p","l","y">>,
       <<"m","a","i","l","e","r","-","d","a","e","m","o","n">>, <<"p","o","s","t","m","a","s","t","e","r">>, <<"w","e","b","m","a","s","t","e","r">>,
       <<"e","x","a","m","p","l","e">>, <<"t","e","s","t">>, <<"d","e","m","o">>, <<"s","a","m","p","l","e">> >>

\* part_001:28-37
isGenericEmail(email) ==
    LET localPart == toLowerCase(split(email, "@")[1]) IN
    \E n \in 1..Len(genericPrefixes) : includes(localPart, genericPrefixes[n])

\* part_001:42-55   strictPattern is emailPattern anchored at both ends
isValidEmailFormat(email) ==
    /\ MatchAt(email, 1) = Len(email)
    /\ ~(Len(email) > 254)
    /\ ~(Len(split(email, "@")[1]) > 64)

\* variant: every match is kept, repeated or not
extractEmailsFromContentAll(content) ==
    LET matches == MatchAll(content, 1) IN
    Filter(matches, {e \in Range(matches) : ~isGenericEmail(e) /\ isValidEmailFormat(e)})

\* part_001:12-23
extractEmailsFromContent(content) ==
    LET uniqueEmails == Unique(MatchAll(content, 1)) IN
    Filter(uniqueEmails,
           {e \in Range(uniqueEmails) : ~isGenericEmail(e) /\ isValidEmailFormat(e)})

\* s.replace(/\.[^.]+$/, '')
dropLastLabel(s) ==
    LET parts == split(s, ".") IN
    IF Len(parts) >= 2 /\ Last(parts) # <<>>
    THEN SubSeq(s, 1, Len(s) - Len(Last(parts)) - 1)
    ELSE s

\* part_001:82 and 129   the substring rule on an e-mail domain and a domain
domainMatches(emailDomain, domain) ==
    includes(emailDomain, domain) \/ includes(domain, dropLastLabel(emailDomain))

\* part_001:87-88
hasPersonalPattern(localPart) ==
    \E p \in { <<"h","e","l","l","o">>, <<"h","i">>, <<"i","n","f","o">>, <<"c","o","n","t","a","c","t">>, <<"s","a","l","e","s">>, <<"t","e","a","m">> } :
        includes(localPart, p)

\* part_001:98   /^[a-z]+\.[a-z]+$/ or /^[a-z]{4,12}$/
looksLikeName(localPart) ==
    \/ LET parts == split(localPart, ".") IN
         /\ Len(parts) = 2
         /\ parts[1] # <<>> /\ AllIn(parts[1], Lower)
         /\ parts[2] # <<>> /\ AllIn(parts[2], Lower)
    \/ Len(localPart) >= 4 /\ Len(localPart) <= 12 /\ AllIn(localPart, Lower)

\* variant: the domain match weighs no more than a short local part
calculateEmailScoreFlat(email, domain) ==
    LET emailLower == toLowerCase(email)
        localPart == split(emailLower, "@")[1]
        emailDomain == split(emailLower, "@")[2]
    IN (IF domainMatches(emailDomain, domain) THEN 10 ELSE 0)
       + (IF hasPersonalPattern(localPart) THEN 20 ELSE 0)
       + (IF Len(localPart) < 15 THEN 10 ELSE 0)
       + (IF looksLikeName(localPart) THEN 15 ELSE 0)

\* part_001:75-103
calculateEmailScore(email, domain) ==
    LET emailLower == toLowerCase(email)
        localPart == split(emailLower, "@")[1]
        emailDomain == split(emailLower, "@")[2]
    IN (IF domainMatches(emailDomain, domain) THEN 50 ELSE 0)
       + (IF hasPersonalPattern(localPart) THEN 20 ELSE 0)
       + (IF Len(localPart) < 15 THEN 10 ELSE 0)
       + (IF looksLikeName(localPart) THEN 15 ELSE 0)

\* Array.prototype.sort with (a, b) => b.score - a.score: a stable sort,
\* so an item goes behind every item that does not score less
RECURSIVE sortByScore(_)
sortByScore(items) ==
    IF items = <<>> THEN <<>>
    ELSE LET done == sortByScore(SubSeq(items, 1, Len(items) - 1))
             x == Last(items)
             k == Cardinality({n \in 1..Len(done) : done[n].score >= x.score})
         IN SubSeq(done, 1, k) \o <<x>> \o SubSeq(done, k + 1, Len(done))

\* part_001:60-70
rankEmails(emails, domain) ==
    LET domainBase == toLowerCase(dropPrefix(domain, <<"w","w","w",".">>))
        sorted == sortByScore([n \in 1..Len(emails) |->
                     [email |-> emails[n],
                      score |-> calculateEmailScore(emails[n], domainBase)]])
    IN [n \in 1..Len(sorted) |-> sorted[n].email]

\* s.replace(/\/+$/, '')
RECURSIVE dropTrailingSlashes(_)
dropTrailingSlashes(s) ==
    IF s # <<>> /\ Last(s) = "/" THEN dropTrailingSlashes(SubSeq(s, 1, Len(s) - 1)) ELSE s

\* crawl.ts:216-228
normalizeUrl(url) ==
    LET normalized == dropTrailingSlashes(toLowerCase(trim(url))) IN
    IF ~startsWith(normalized, <<"h","t","t","p",":","/","/">>) /\ ~startsWith(normalized, <<"h","t","t","p","s",":","/","/">>)
    THEN <<"h","t","t","p","s",":","/","/">> \o normalized
    ELSE normalized

\* new URL(normalized).hostname for a normalized URL without credentials or
\* port: the text between '://' and the first '/', '?' or '#'; None where the
\* constructor throws (no host, or a character no host may hold)
hostname(normalized) ==
    LET rest == IF startsWith(normalized, <<"h","t","t","p",":","/","/">>)
                THEN dropPrefix(normalized, <<"h","t","t","p",":","/","/">>)
                ELSE dropPrefix(normalized, <<"h","t","t","p","s",":","/","/">>)
        host == split(split(split(rest, "/")[1], "?")[1], "#")[1]
    IN IF host = <<>> \/ ~AllIn(host, Lower \cup Digit \cup {".", "-"}) THEN None ELSE host

\* crawl.ts:233-240
extractDomain(url) ==
    IF hostname(normalizeUrl(url)) = None THEN url
    ELSE dropPrefix(hostname(normalizeUrl(url)), <<"w","w","w",".">>)

\* part_001:108-139
analyzeAndExtractEmail(content, websiteUrl) ==
    LET emails == extractEmailsFromContent(content)
        domain == extractDomain(websiteUrl)
        rankedEmails == rankEmails(emails, domain)
    IN IF Len(rankedEmails) = 0
       THEN [emails |-> <<>>, primaryEmail |-> None,
             source |-> "page_content", confidence |-> "low"]
       ELSE LET primaryEmail == rankedEmails[1]
                primaryDomain == split(primaryEmail, "@")[2]
            IN [emails |-> rankedEmails, primaryEmail |-> primaryEmail,
                source |-> "page_content",
                confidence |-> IF domainMatches(primaryDomain, domain)
                               THEN "high" ELSE "medium"]

-----------------------------------------------------------------------------
(* The extractor applied to page contents: analyzeAndExtractEmail runs       *)
(* extractEmailsFromContent, then rankEmails, then builds its result.        *)

\* the page contents: up to MaxPieces pieces, one after the other
MaxPieces == 3

ContentPieces ==
    { <<"s","a","l","e","s","@","a",".","c","o"," ">>, <<"h","e","l","l","o","@","a",".","c","o"," ">>, <<"i","n","f","o","@","b",".","u","k">>, <<"B","o","b","@","A",".","c","o"," ">>,
      <<"n","o","r","e","p","l","y","@","a",".","c","o",",">>, <<"D","o","-","N","o","t","-","R","e","p","l","y","@","a",".","c","o"," ">>,
      [n \in 1..65 |-> "x"] \o <<"@","a",".","c","o"," ">>,
      <<"a","@">> \o [n \in 1..250 |-> "y"] \o <<".","c","o"," ">> }

WebsiteUrls == { <<"a",".","c","o">>, <<"H","T","T","P","S",":","/","/","w","w","w",".","b",".","u","k","/">>, <<>> }

InitEmail ==
    /\ PipelineFresh
    /\ \E content \in StringsOf(ContentPieces, MaxPieces) : \E websiteUrl \in WebsiteUrls :
          pending = [fn |-> "extractEmailsFromContent",
                     content |-> content, websiteUrl |-> websiteUrl]
    /\ trail = <<>>

\* part_001:112
ApplyExtractEmailsFromContent ==
    /\ pending.fn = "extractEmailsFromContent"
    /\ trail' = Applied("extractEmailsFromContent", pending.content,
                        extractEmailsFromContent(pending.content))
    /\ pending' = [pending EXCEPT !.fn = "rankEmails"]
    /\ UNCHANGED pipelineVars

\* part_001:113-114
ApplyRankEmails ==
    /\ pending.fn = "rankEmails"
    /\ LET emails == trail[1].ret
           domain == extractDomain(pending.websiteUrl)
       IN trail' = Applied("rankEmails", [emails |-> emails, domain |-> domain],
                           rankEmails(emails, domain))
    /\ pending' = [pending EXCEPT !.fn = "analyzeAndExtractEmail"]
    /\ UNCHANGED pipelineVars

\* part_001:116-138
ReturnAnalysis ==
    /\ pending.fn = "analyzeAndExtractEmail"
    /\ trail' = Applied("analyzeAndExtractEmail",
                        [content |-> pending.content, websiteUrl |-> pending.websiteUrl],
                        analyzeAndExtractEmail(pending.content, pending.websiteUrl))
    /\ pending' = NoCall
    /\ UNCHANGED pipelineVars

NextEmail ==
    \/ ApplyExtractEmailsFromContent
    \/ ApplyRankEmails
    \/ ReturnAnalysis

SpecEmail == InitEmail /\ [][NextEmail]_vars

-----------------------------------------------------------------------------
(* Claims about the e-mail extractor *)

localPartOf(email) == split(email, "@")[1]

\* the score of a candidate for the domain rankEmails was given: 50 for a
\* domain match, 20 for a role-like token in the local part, 10 for a local
\* part shorter than 15, 15 for a name-like local part
ScoreOf(email, domain) ==
    LET lowered == toLowerCase(email)
        target == toLowerCase(dropPrefix(domain, <<"w","w","w",".">>))
    IN (IF domainMatches(split(lowered, "@")[2], target) THEN 50 ELSE 0)
       + (IF hasPersonalPattern(localPartOf(lowered)) THEN 20 ELSE 0)
       + (IF Len(localPartOf(lowered)) < 15 THEN 10 ELSE 0)
       + (IF looksLikeName(localPartOf(lowered)) THEN 15 ELSE 0)

\* the place of an e-mail in a list that holds it
PlaceIn(emails, email) == CHOOSE k \in 1..Len(emails) : emails[k] = email

\* C18: rankEmails returns a permutation of the (distinct) e-mails it was
\* given, ordered by non-increasing score (50 domain match + 20 role-like
\* token + 10 short local part + 15 name-like local part), and e-mails of
\* equal score keep the order they had in the input.
C18_RankedByScore ==
    \A n \in AppliedOf("rankEmails") :
       LET emails == trail[n].arg.emails
           domain == trail[n].arg.domain
           ranked == trail[n].ret
       IN /\ Len(ranked) = Len(emails)
          /\ Range(ranked) = Range(emails)
          /\ \A a, b \in 1..Len(ranked) :
                a < b =>
                  /\ ScoreOf(ranked[a], domain) >= ScoreOf(ranked[b], domain)
                  /\ ScoreOf(ranked[a], domain) = ScoreOf(ranked[b], domain)
                        => PlaceIn(emails, ranked[a]) < PlaceIn(emails, ranked[b])

\* rankEmails has moved an e-mail forward, past another, and has kept two
\* e-mails of equal score in their order
C18_Witness ==
    \E n \in AppliedOf("rankEmails") :
       LET emails == trail[n].arg.emails
           domain == trail[n].arg.domain
           ranked == trail[n].ret
       IN /\ ranked # emails
          /\ \E a, b \in 1..Len(ranked) :
                /\ a < b
                /\ ScoreOf(ranked[a], domain) = ScoreOf(ranked[b], domain)
          /\ \E a, b \in 1..Len(ranked) :
                ScoreOf(ranked[a], domain) > ScoreOf(ranked[b], domain)

\* C19: analyzeAndExtractEmail reports confidence high exactly when the
\* top-ranked e-mail was given the domain-match bonus by rankEmails (its
\* score is 50 or more: the other terms add up to 45), medium when there is
\* a top e-mail without it, and low exactly when no candidate remains, and
\* then primaryEmail is absent.
C19_ConfidenceFollowsScore ==
    \A n \in AppliedOf("analyzeAndExtractEmail") :
       LET result == trail[n].ret
           domain == extractDomain(trail[n].arg.websiteUrl)
       IN /\ result.confidence = "low" <=> result.emails = <<>>
          /\ result.emails = <<>> => result.primaryEmail = None
          /\ result.emails # <<>> =>
                /\ result.primaryEmail = result.emails[1]
                /\ result.confidence = "high"
                      <=> ScoreOf(result.emails[1], domain) >= 50
                /\ result.confidence = "medium"
                      <=> ScoreOf(result.emails[1], domain) < 50

\* the generic-role substrings as the contract lists them
ListedGeneric ==
    { <<"n","o","r","e","p","l","y">>, <<"n","o","-","r","e","p","l","y">>, <<"d","o","n","o","t","r","e","p","l","y">>, <<"m","a","i","l","e","r","-","d","a","e","m","o","n">>, <<"p","o","s","t","m","a","s","t","e","r">>,
      <<"w","e","b","m","a","s","t","e","r">>, <<"e","x","a","m","p","l","e">>, <<"t","e","s","t">>, <<"d","e","m","o">>, <<"s","a","m","p","l","e">> }

\* an address the extractor is to give back: its local part, in lower case,
\* holds none of the substrings, and it keeps to the two lengths
Wanted(email, generic) ==
    /\ Len(email) <= 254
    /\ Len(localPartOf(email)) <= 64
    /\ LET lowered == toLowerCase(localPartOf(email)) IN
         \A g \in generic : ~includes(lowered, g)

NoRepeats(s) == \A a, b \in 1..Len(s) : s[a] = s[b] => a = b

ReturnsTheWanted(generic) ==
    \A n \in AppliedOf("extractEmailsFromContent") :
       /\ NoRepeats(trail[n].ret)
       /\ Range(trail[n].ret) =
             {m \in Range(MatchAll(trail[n].arg, 1)) : Wanted(m, generic)}

\* C20 (as stated): extractEmailsFromContent returns each e-mail-shaped
\* match once, none whose local part holds one of noreply, no-reply,
\* donotreply, mailer-daemon, postmaster, webmaster, example, test, demo,
\* sample, none with a local part over 64 or a length over 254, and every
\* other e-mail-shaped match of the content.
C20_ReturnsAllButListed == ReturnsTheWanted(ListedGeneric)

\* C20 (amended): the same with do-not-reply among the substrings.
C20_ReturnsAllButGeneric == ReturnsTheWanted(ListedGeneric \cup { <<"d","o","-","n","o","t","-","r","e","p","l","y">> })

\* a content that names an address twice, a do-not-reply address that is
\* left out, and an address that is returned
C20_Witness ==
    \E n \in AppliedOf("extractEmailsFromContent") :
       LET matches == MatchAll(trail[n].arg, 1) IN
       /\ ~NoRepeats(matches)
       /\ \E k \in 1..Len(matches) :
             /\ includes(toLowerCase(localPartOf(matches[k])), <<"d","o","-","n","o","t","-","r","e","p","l","y">>)
             /\ matches[k] \notin Range(trail[n].ret)
       /\ trail[n].ret # <<>>

-----------------------------------------------------------------------------
(* extractCompanyInsights (src/src/agent/index.ts) *)

\* index.ts:56
maxLength == 3000

\* content.split(/\n\n+/) from index from on: a separator is a longest run
\* of two or more line feeds
RECURSIVE splitParagraphs(_, _)
splitParagraphs(s, from) ==
    LET breaks == {p \in from..(Len(s) - 1) : s[p] = "\n" /\ s[p + 1] = "\n"}
        first == CHOOSE p \in breaks : \A q \in breaks : p <= q
    IN IF breaks = {} THEN <<SubSeq(s, from, Len(s))>>
       ELSE <<SubSeq(s, from, first - 1)>>
               \o splitParagraphs(s, RunEnd(s, first, {"\n"}) + 1)

\* index.ts:64-67   the for loop over paragraphs, entered with trimmedContent
RECURSIVE takeParagraphs(_, _)
takeParagraphs(paragraphs, trimmedContent) ==
    IF paragraphs = <<>> THEN trimmedContent
    ELSE IF Len(trimmedContent \o Head(paragraphs)) > maxLength THEN trimmedContent
    ELSE takeParagraphs(Tail(paragraphs), trimmedContent \o Head(paragraphs) \o <<"\n", "\n">>)

\* variant: a content over the budget is cut at the budget
extractCompanyInsightsCut(content) ==
    IF Len(content) > maxLength THEN trim(SubSeq(content, 1, maxLength)) ELSE trim(content)

\* index.ts:54-75
extractCompanyInsights(content) ==
    IF Len(content) > maxLength
    THEN LET trimmedContent == takeParagraphs(splitParagraphs(content, 1), <<>>) IN
         IF Len(trimmedContent) = 0
         THEN trim(SubSeq(content, 1, maxLength))
         ELSE trim(trimmedContent)
    ELSE trim(content)

-----------------------------------------------------------------------------
(* extractCompanyInsights applied to page contents *)

\* the contents: up to MaxParts parts, one after the other
MaxParts == 3

ContentParts ==
    { [n \in 1..1499 |-> "x"] \o <<"\n", "\n">>,
      [n \in 1..1500 |-> "x"] \o <<"\n", "\n", "\n">>,
      [n \in 1..3001 |-> "x"],
      <<"a","b">>, <<" ">>, <<"\n", "\n">> }

InitInsights ==
    /\ PipelineFresh
    /\ \E content \in StringsOf(ContentParts, MaxParts) :
          pending = [fn |-> "extractCompanyInsights", arg |-> content]
    /\ trail = <<>>

ApplyExtractCompanyInsights ==
    /\ pending.fn = "extractCompanyInsights"
    /\ trail' = Applied("extractCompanyInsights", pending.arg,
                        extractCompanyInsights(pending.arg))
    /\ pending' = NoCall
    /\ UNCHANGED pipelineVars

NextInsights == ApplyExtractCompanyInsights

SpecInsights == InitInsights /\ [][NextInsights]_vars

\* the paragraphs joined by one empty line
RECURSIVE JoinParagraphs(_)
JoinParagraphs(paragraphs) ==
    IF paragraphs = <<>> THEN <<>>
    ELSE IF Len(paragraphs) = 1 THEN paragraphs[1]
    ELSE paragraphs[1] \o <<"\n", "\n">> \o JoinParagraphs(Tail(paragraphs))

\* C21: extractCompanyInsights returns at most 3000 characters, and what it
\* returns is, up to the white space at its two ends, the whole content or
\* the first k whole paragraphs of the content, or, when the first paragraph
\* alone is over 3000 characters, the first 3000 characters of the content.
C21_WholeParagraphsWithinBudget ==
    \A n \in AppliedOf("extractCompanyInsights") :
       LET content == trail[n].arg
           insights == trail[n].ret
           paragraphs == splitParagraphs(content, 1)
       IN /\ Len(insights) <= 3000
          /\ \/ insights = trim(content)
             \/ \E k \in 0..Len(paragraphs) :
                   insights = trim(JoinParagraphs(SubSeq(paragraphs, 1, k)))
             \/ /\ Len(paragraphs[1]) > 3000
                /\ insights = trim(SubSeq(content, 1, 3000))

\* a content over the budget of which two whole paragraphs fill the budget
\* to the last character, and a third one is left out
C21_Witness ==
    \E n \in AppliedOf("extractCompanyInsights") :
       /\ Len(trail[n].arg) > 3000
       /\ Len(trail[n].ret) = 3000
       /\ Len(splitParagraphs(trail[n].ret, 1)) = 2
       /\ Len(splitParagraphs(trail[n].arg, 1)) > 3

-----------------------------------------------------------------------------
(* Further properties of phase 1 *)

\* C22: the contact pages of a lead are requested only if its main-page
\* scrape succeeded and its markdown holds no e-mail address: a lead whose
\* scrapeForContact is at a contact page has a successful main result (when
\* the main page fails no contact page is requested, and the failure is the
\* lead's scrape result).
C22_ContactOnlyAfterEmptyMain ==
    \A j \in 1..Len(tasks) :
       tasks[j].stage = "contact"
          => /\ tasks[j].mainResult.present
             /\ tasks[j].mainResult.success
             /\ ~(Truthy(tasks[j].mainResult.markdown)
                    /\ containsEmail(tasks[j].mainResult.markdown))

\* the reports of the progress log made with stage s for the valid lead j
ReportsOf(j, s) ==
    {n \in 1..Len(progress) :
        /\ progress[n].stage = s
        /\ progress[n].currentLead = tasks[j].result.lead.website}

\* C26: in phase 1 the progress callback fires exactly twice per valid-domain
\* lead and never for another lead: once with stage scraping and
\* currentIndex = the lead's index among the valid leads, before any external
\* call for that lead, and once with stage extracting and currentIndex =
\* index + 1, when the lead's enrichment has finished; every currentIndex
\* lies in 0..totalCount.
C26_TwoReportsPerValidLead ==
    /\ \A n \in 1..Len(progress) :
          /\ progress[n].stage \in {"scraping", "extracting"}
          /\ progress[n].totalCount = Len(validLeads)
          /\ 0 <= progress[n].currentIndex
          /\ progress[n].currentIndex <= progress[n].totalCount
          /\ \E j \in 1..Len(tasks) :
                progress[n].currentLead = tasks[j].result.lead.website
    /\ \A j \in 1..Len(tasks) :
          /\ Cardinality(ReportsOf(j, "scraping")) =
                (IF tasks[j].stage = "idle" THEN 0 ELSE 1)
          /\ Cardinality(ReportsOf(j, "extracting")) =
                (IF tasks[j].stage = "done" THEN 1 ELSE 0)
          /\ \A n \in ReportsOf(j, "scraping") :
                /\ progress[n].currentIndex = j - 1
                /\ \A c \in progress[n].callsSoFar : c[2] # progress[n].currentLead
                /\ \A m \in ReportsOf(j, "extracting") : n < m
          /\ \A n \in ReportsOf(j, "extracting") : progress[n].currentIndex = j
    /\ Settled1 => Len(progress) = 2 * Len(validLeads)

\* two valid leads of one batch have finished in the reverse of their order,
\* next to a lead with an invalid domain
C26_Witness ==
    /\ pc1 = "done"
    /\ Len(argLeads) = 3
    /\ Len(validLeads) = 2
    /\ Len(progress) = 4
    /\ progress[3].stage = "extracting" /\ progress[3].currentIndex = 2
    /\ progress[4].stage = "extracting" /\ progress[4].currentIndex = 1
    /\ \E c \in calls : c[1] = "extract"

\* the positions of the input leads in the order the result list is to have:
\* the valid-domain leads, then the others
ResultOrder ==
    LET positions == [p \in 1..Len(argLeads) |-> p] IN
    Filter(positions, {p \in 1..Len(argLeads) : argLeads[p].domainValidation = "valid"})
       \o Filter(positions, {p \in 1..Len(argLeads) : argLeads[p].domainValidation # "valid"})

\* C28: whatever the order in which the concurrent calls complete, the
\* result list of findEmailsForLeads holds the results of the valid-domain
\* leads in input order, then the invalid-domain leads in input order, each
\* of these with status skipped; and no skipped result is in the list before
\* every valid-domain lead has finished.
C28_ResultOrder ==
    /\ Settled1 =>
          /\ Len(results) = Len(argLeads)
          /\ \A n \in 1..Len(results) :
                /\ results[n].lead.row = argLeads[ResultOrder[n]].row
                /\ n > Len(validLeads) => results[n].lead.enrichmentStatus = "skipped"
    /\ \A n \in 1..Len(results) :
          (\E p \in 1..Len(argLeads) :
              /\ argLeads[p].row = results[n].lead.row
              /\ argLeads[p].domainValidation # "valid")
          => \A j \in 1..Len(tasks) : tasks[j].stage = "done"

\* the list starts with an invalid-domain lead, and the second valid lead
\* finished before the first
C28_Witness ==
    /\ pc1 = "done"
    /\ Len(argLeads) = 3
    /\ argLeads[1].domainValidation = "invalid"
    /\ Len(validLeads) = 2
    /\ progress[3].stage = "extracting" /\ progress[3].currentIndex = 2
    /\ results[1].lead.row = 2 /\ results[2].lead.row = 3 /\ results[3].lead.row = 1

RECURSIVE SumOf(_, _)
SumOf(f, n) == IF n = 0 THEN 0 ELSE f[n] + SumOf(f, n - 1)

\* C29: the usage accumulator of phase 1 loses no update: when
\* findEmailsForLeads resolves, inputTokens and outputTokens are the sums
\* over the ExtractEmails results obtained, scrapedPages is the number of
\* leads whose returned scrape result is a success, and the figures of
\* successive progress reports never decrease.
C29_UsageLosesNothing ==
    /\ Settled1 =>
          /\ usage.inputTokens =
                SumOf([j \in 1..Len(tasks) |->
                         IF tasks[j].result.emailResult.present
                         THEN tasks[j].result.emailResult.inputTokens ELSE 0], Len(tasks))
          /\ usage.outputTokens =
                SumOf([j \in 1..Len(tasks) |->
                         IF tasks[j].result.emailResult.present
                         THEN tasks[j].result.emailResult.outputTokens ELSE 0], Len(tasks))
          /\ usage.scrapedPages =
                Cardinality({j \in 1..Len(tasks) :
                               /\ tasks[j].result.scrapeResult.present
                               /\ tasks[j].result.scrapeResult.success})
    /\ \A n, m \in 1..Len(progress) :
          n < m => /\ progress[n].usage.inputTokens <= progress[m].usage.inputTokens
                   /\ progress[n].usage.outputTokens <= progress[m].usage.outputTokens
                   /\ progress[n].usage.scrapedPages <= progress[m].usage.scrapedPages

\* two leads of one batch have both had their e-mails extracted, the second
\* before the first, and a third lead's scrape failed
C29_Witness ==
    /\ pc1 = "done"
    /\ Len(tasks) = 3
    /\ config.maxConcurrency = 2
    /\ usage.inputTokens = 4 /\ usage.outputTokens = 2 /\ usage.scrapedPages = 2
    /\ progress[3].stage = "extracting" /\ progress[3].currentIndex = 2
    /\ progress[3].usage.inputTokens = 2
    /\ progress[4].usage.inputTokens = 4
    /\ tasks[3].result.scrapeResult.present /\ ~tasks[3].result.scrapeResult.success

-----------------------------------------------------------------------------
(* Further properties of phase 2 *)

\* the lead a with nothing but its icebreaker taken from b
WithIcebreakerOf(a, b) == [a EXCEPT !.icebreaker = b.icebreaker]

ReturnedLeadsKeepFields ==
    /\ Len(results2) <= Len(leads2)
    /\ \A n \in 1..Len(results2) :
          /\ results2[n].lead = WithIcebreakerOf(leads2[n], results2[n].lead)
          /\ results2[n].lead.enrichmentStatus = leads2[n].enrichmentStatus
          /\ results2[n].lead.email = leads2[n].email
          /\ results2[n].lead.errorMessage = leads2[n].errorMessage
          /\ results2[n].lead.website = leads2[n].website
          /\ results2[n].lead.domainValidation = leads2[n].domainValidation

AppLeadsKeepFields ==
    /\ Len(leads') = Len(leads)
    /\ \A p \in 1..Len(leads) : leads'[p] = WithIcebreakerOf(leads[p], leads'[p])

\* C23: phase 2 changes nothing on a lead except its icebreaker: every lead
\* generateIcebreakersForLeads has returned so far equals the supplied lead at
\* the same position in enrichmentStatus, email, errorMessage, website,
\* domainValidation and every other field but icebreaker, whether the
\* generation succeeded or failed; and no step of the review stage or of
\* phase 2 changes a lead of the App's list in anything but its icebreaker.
C23_OnlyIcebreakerChanges ==
    /\ []ReturnedLeadsKeepFields
    /\ [][AppLeadsKeepFields]_vars

\* phase 2 has returned a completed lead with an e-mail address and a new
\* icebreaker, and a lead whose generation failed, and the App's list holds
\* the new icebreaker
C23_Witness ==
    /\ pc2 = "resolved"
    /\ \E n \in 1..Len(results2) :
          /\ results2[n].icebreakerResult.success
          /\ Truthy(results2[n].lead.icebreaker)
          /\ ~Truthy(leads2[n].icebreaker)
          /\ results2[n].lead.enrichmentStatus = "completed"
          /\ Truthy(results2[n].lead.email)
    /\ \E n \in 1..Len(results2) :
          /\ ~results2[n].icebreakerResult.success
          /\ results2[n].lead.enrichmentStatus = "failed"
          /\ Truthy(results2[n].lead.errorMessage)
    /\ \E p \in 1..Len(leads) : Truthy(leads[p].icebreaker)

ScrapeSteps == {"main"} \cup Range(ContactStep)

CacheHit(lead) == Truthy(OrElse(scrapedContent[lead.website], ""))

CachedLeadsNotScraped ==
    /\ \A w \in Sites :
          Truthy(OrElse(scrapedContent[w], "")) => <<"scrape", w>> \notin calls
    /\ (pc2 = "running" /\ step2 \in ScrapeSteps) => ~CacheHit(leads2[i2 + 1])
    /\ (pc2 = "running" /\ step2 = "generate" /\ CacheHit(leads2[i2 + 1]))
          => content2 = scrapedContent[leads2[i2 + 1].website]
    /\ (pc2 = "running" /\ step2 = "generate") => Truthy(content2)

\* C24: in phase 2 no Scrape call is ever made for a website that has
\* non-empty cached markdown, and the content handed to GenerateIcebreaker for
\* a lead of such a website is the cached markdown; the loop is at a Scrape
\* call only for a lead whose website has no cached markdown; and no step of
\* the review stage or of phase 2 changes the cache.
C24_CacheReadNotWritten ==
    /\ []CachedLeadsNotScraped
    /\ [][scrapedContent' = scrapedContent]_vars

\* phase 2 has handled a lead from the cache without a Scrape call and
\* another lead, not cached, for which Scrape was called
C24_Witness ==
    /\ pc2 = "resolved"
    /\ Len(results2) = 2
    /\ \E n, m \in 1..Len(results2) :
          /\ CacheHit(leads2[n])
          /\ results2[n].icebreakerResult.success
          /\ <<"scrape", leads2[n].website>> \notin calls
          /\ <<"icebreaker", leads2[n].website>> \in calls
          /\ ~CacheHit(leads2[m])
          /\ <<"scrape", leads2[m].website>> \in calls

\* the loop of phase 2 is done with the Scrape calls of the current lead and
\* has no content for it
ScrapeEndsWithoutContent ==
    /\ pc2 = "running" /\ step2 \in ScrapeSteps
    /\ ~(pc2' = "running" /\ i2' = i2)

\* C25: in phase 2, with the service initialized, when the re-scrape of a lead without cached markdown ends
\* without content, by an error result or by a thrown error, the call does not
\* reject, the lead's result is the synthetic failed one (success false, empty
\* icebreaker, zero tokens) and no GenerateIcebreaker call is made for it.
C25_NoContentNeverThrows ==
    [][ (isEnrichmentReady /\ ScrapeEndsWithoutContent) =>
          /\ pc2' # "rejected"
          /\ Len(results2') = Len(results2) + 1
          /\ results2'[Len(results2')].icebreakerResult = NoContentResult
          /\ results2'[Len(results2')].lead.website = leads2[i2 + 1].website
          /\ <<"icebreaker", leads2[i2 + 1].website>> \notin (calls' \ calls) ]_vars

-----------------------------------------------------------------------------
(* The App's stage machine (part_000): the handlers that move the stage,    *)
(* with every phase call they start kept in openCalls until its promise     *)
(* settles and the handler's continuation has run.  The calls themselves    *)
(* are followed here only by the reports they make to the App's callbacks;  *)
(* their inner steps are those of Spec and SpecReview.                      *)

MaxOpenCalls == 2      \* most phase calls left unsettled at one moment
MaxStageLeads == 1     \* longest list uploaded while the stages are followed

\* the lists onUpload receives here: rows with a valid domain and no e-mail
StageLists ==
    { [p \in 1..n |-> processRow(p, SiteOf(p), TRUE, "bad tld", Undefined)] :
        n \in 1..MaxStageLeads }

\* what enrichLead returns for a lead (enrichment.ts:216-274): completed, from
\* a page with an address, or failed by a scrape error
EnrichLeadResults(lead) ==
    { [ lead |-> [lead EXCEPT !.enrichmentStatus = "completed", !.email = "found@site"],
        scrapeResult |-> [NoScrape EXCEPT !.present = TRUE, !.success = TRUE,
                                          !.markdown = "page with a@b.co"],
        emailResult |-> [NoEmailResult EXCEPT !.present = TRUE, !.success = TRUE,
                                              !.primaryEmail = "found@site",
                                              !.inputTokens = 2, !.outputTokens = 1] ],
      [ lead |-> [lead EXCEPT !.enrichmentStatus = "failed",
                              !.errorMessage = "Failed to scrape URL"],
        scrapeResult |-> [NoScrape EXCEPT !.present = TRUE,
                                          !.error = "Failed to scrape URL"],
        emailResult |-> NoEmailResult ] }

\* the icebreaker generateIcebreakersForLeads ends up with for a lead, given
\* what the cache holds for its website when the loop reaches it
\* (enrichment.ts:362-398)
IcebreakerOutcomes(content) ==
    IF Truthy(OrElse(content, ""))
    THEN {"Loved your launch", Undefined}
    ELSE {Undefined}

NoCacheEntries == [w \in Sites |-> Undefined]

OpenCall(fn, ls, picked) ==
    [fn |-> fn, leads |-> ls, picked |-> picked, reports |-> 0, results |-> <<>>,
     pc |-> "running"]

RemoveAt(s, c) == [n \in 1..(Len(s) - 1) |-> IF n < c THEN s[n] ELSE s[n + 1]]

InitStages ==
    /\ apiKeys = FALSE
    /\ serverHasEnvVars = FALSE
    /\ stage = "loading"
    /\ error = Undefined
    /\ leads = <<>>
    /\ selectedLeads = <<>>
    /\ processingIndex = 0
    /\ scrapedContent = NoCacheEntries
    /\ config \in [maxConcurrency : {1}]
    /\ pc1 = "idle"
    /\ argLeads = <<>>
    /\ validLeads = <<>>
    /\ i = 0
    /\ tasks = <<>>
    /\ results = <<>>
    /\ usage = NoUsage
    /\ rejection = Undefined
    /\ batchCount = 0
    /\ calls = {}
    /\ progress = <<>>
    /\ openCalls = <<>>
    /\ Phase2Idle
    /\ LibIdle

\* what the handlers of the stage machine leave alone
StageFrame ==
    UNCHANGED <<libVars, config, phase1Vars, rejection, calls, progress, phase2Vars>>

\* the start-up effect (part_000:49-66)
CheckEnvVars ==
    /\ stage = "loading"
    /\ \E hasKeys, hasStoredKeys \in BOOLEAN :
          /\ serverHasEnvVars' = hasKeys
          /\ apiKeys' = (~hasKeys /\ hasStoredKeys)
          /\ stage' = IF hasKeys \/ hasStoredKeys THEN "upload" ELSE "setup"
    /\ UNCHANGED <<error, leads, selectedLeads, processingIndex, scrapedContent, openCalls>>
    /\ StageFrame

\* handleAPISetup (part_000:68-71)
HandleAPISetup ==
    /\ stage = "setup"
    /\ apiKeys' = TRUE
    /\ stage' = "upload"
    /\ UNCHANGED <<serverHasEnvVars, error, leads, selectedLeads, processingIndex,
                   scrapedContent, openCalls>>
    /\ StageFrame

\* handleFileUpload (part_000:73-77)
HandleFileUpload ==
    /\ stage = "upload"
    /\ \E parsedLeads \in StageLists : leads' = parsedLeads
    /\ error' = Undefined
    /\ stage' = "configure"
    /\ UNCHANGED <<moduleVars, selectedLeads, processingIndex, scrapedContent, openCalls>>
    /\ StageFrame

\* handleFindEmails up to its await (part_000:80-87): the call is started
\* with the list the handler closed over
FindEmailsCalled ==
    /\ stage = "configure"
    /\ Len(openCalls) < MaxOpenCalls
    /\ stage' = "finding_emails"
    /\ processingIndex' = 0
    /\ error' = Undefined
    /\ scrapedContent' = NoCacheEntries
    /\ openCalls' = Append(openCalls, OpenCall("findEmailsForLeads", leads, <<>>))
    /\ UNCHANGED <<moduleVars, leads, selectedLeads>>
    /\ StageFrame

\* the open findEmailsForLeads call c has enriched its next valid lead and
\* reports it: the callback of part_000:90-117 runs on the App's state (the
\* report made when the lead was started wrote the same row and index, and
\* is overwritten by this one)
FindEmailsReports(c) ==
    /\ c \in 1..Len(openCalls)
    /\ openCalls[c].fn = "findEmailsForLeads"
    /\ LET vl == ValidLeadsOf(openCalls[c].leads)
           n  == openCalls[c].reports
       IN /\ n < Len(vl)
          /\ \E result \in EnrichLeadResults(vl[n + 1]) :
               LET app == OnFindProgress([leads |-> leads,
                                          scrapedContent |-> scrapedContent,
                                          processingIndex |-> processingIndex],
                                         n + 1, result)
               IN /\ leads' = app.leads
                  /\ scrapedContent' = app.scrapedContent
                  /\ processingIndex' = app.processingIndex
                  /\ openCalls' = [openCalls EXCEPT ![c].reports = n + 1,
                                                    ![c].results = Append(@, result)]
    /\ UNCHANGED <<moduleVars, stage, error, selectedLeads>>
    /\ StageFrame

\* the open findEmailsForLeads call c resolves and handleFindEmails goes on
\* after its await (part_000:119-129)
FindEmailsResolves(c) ==
    /\ c \in 1..Len(openCalls)
    /\ openCalls[c].fn = "findEmailsForLeads"
    /\ openCalls[c].reports = Len(ValidLeadsOf(openCalls[c].leads))
    /\ selectedLeads' = LeadsWithEmails(openCalls[c].results, openCalls[c].leads, <<>>)
    /\ stage' = "review"
    /\ openCalls' = RemoveAt(openCalls, c)
    /\ UNCHANGED <<moduleVars, error, leads, processingIndex, scrapedContent>>
    /\ StageFrame

\* handleGenerateIcebreakers up to its await (part_000:137-145)
GenerateIcebreakersCalled ==
    /\ stage = "review"
    /\ Len(openCalls) < MaxOpenCalls
    /\ stage' = "enriching"
    /\ processingIndex' = 0
    /\ error' = Undefined
    /\ openCalls' = Append(openCalls,
                           OpenCall("generateIcebreakersForLeads", leads, selectedLeads))
    /\ UNCHANGED <<moduleVars, leads, selectedLeads, scrapedContent>>
    /\ StageFrame

\* the open generateIcebreakersForLeads call c handles its next lead: it
\* reads the cache (enrichment.ts:362) and reports the result to the
\* callback of part_000:149-174; a selected index with no lead behind it
\* makes lead.website throw (enrichment.ts:361)
GenerateIcebreakersReports(c) ==
    /\ c \in 1..Len(openCalls)
    /\ openCalls[c].fn = "generateIcebreakersForLeads"
    /\ openCalls[c].pc = "running"
    /\ LET n  == openCalls[c].reports
           at == openCalls[c].picked[n + 1] + 1
       IN /\ n < Len(openCalls[c].picked)
          /\ IF at > Len(openCalls[c].leads)
             THEN /\ openCalls' = [openCalls EXCEPT ![c].pc = "rejected"]
                  /\ UNCHANGED <<leads, processingIndex>>
             ELSE \E icebreaker \in
                        IcebreakerOutcomes(scrapedContent[openCalls[c].leads[at].website]) :
                    LET lead == [openCalls[c].leads[at] EXCEPT !.icebreaker = icebreaker]
                        app  == OnIcebreakerProgress(
                                    [leads |-> leads, processingIndex |-> processingIndex],
                                    n + 1, lead)
                    IN /\ leads' = app.leads
                       /\ processingIndex' = app.processingIndex
                       /\ openCalls' = [openCalls EXCEPT ![c].reports = n + 1]
    /\ UNCHANGED <<moduleVars, stage, error, selectedLeads, scrapedContent>>
    /\ StageFrame

\* the open generateIcebreakersForLeads call c settles and
\* handleGenerateIcebreakers goes on after its await (part_000:177-181)
GenerateIcebreakersSettles(c) ==
    /\ c \in 1..Len(openCalls)
    /\ openCalls[c].fn = "generateIcebreakersForLeads"
    /\ \/ openCalls[c].pc = "rejected"
       \/ openCalls[c].reports = Len(openCalls[c].picked)
    /\ IF openCalls[c].pc = "rejected"
       THEN error' = "Cannot read properties of undefined" /\ stage' = "review"
       ELSE error' = error /\ stage' = "complete"
    /\ openCalls' = RemoveAt(openCalls, c)
    /\ UNCHANGED <<moduleVars, leads, selectedLeads, processingIndex, scrapedContent>>
    /\ StageFrame

\* handleSkipToExport (part_000:185-187)
SkipToExport ==
    /\ stage = "review"
    /\ stage' = "complete"
    /\ UNCHANGED <<moduleVars, error, leads, selectedLeads, processingIndex,
                   scrapedContent, openCalls>>
    /\ StageFrame

\* handleReset (part_000:213-220), offered by the export panel
HandleReset ==
    /\ stage = "complete"
    /\ stage' = "upload"
    /\ leads' = <<>>
    /\ selectedLeads' = <<>>
    /\ processingIndex' = 0
    /\ error' = Undefined
    /\ scrapedContent' = NoCacheEntries
    /\ UNCHANGED <<moduleVars, openCalls>>
    /\ StageFrame

\* handleChangeAPIKeys (part_000:222-229), offered by the header in every
\* stage but setup unless the server holds the keys (part_000:278)
HandleChangeAPIKeys ==
    /\ stage \notin {"loading", "setup"}
    /\ ~serverHasEnvVars
    /\ stage' = "setup"
    /\ UNCHANGED <<moduleVars, error, leads, selectedLeads, processingIndex,
                   scrapedContent, openCalls>>
    /\ StageFrame

NextStages ==
    \/ CheckEnvVars
    \/ HandleAPISetup
    \/ HandleFileUpload
    \/ FindEmailsCalled
    \/ \E c \in 1..MaxOpenCalls : FindEmailsReports(c)
    \/ \E c \in 1..MaxOpenCalls : FindEmailsResolves(c)
    \/ GenerateIcebreakersCalled
    \/ \E c \in 1..MaxOpenCalls : GenerateIcebreakersReports(c)
    \/ \E c \in 1..MaxOpenCalls : GenerateIcebreakersSettles(c)
    \/ SkipToExport
    \/ HandleReset
    \/ HandleChangeAPIKeys

SpecStages == InitStages /\ [][NextStages]_vars

OpenCallsOf(fn) == {c \in 1..Len(openCalls) : openCalls[c].fn = fn}

\* C27: in every reachable state of the App's stage machine no
\* generateIcebreakersForLeads call is open while a findEmailsForLeads call
\* is unresolved: phase 2 is started only when every phase-1 call has
\* resolved, and no phase-1 call is started while phase 2 runs.
C27_PhasesNeverOverlap ==
    ~( OpenCallsOf("findEmailsForLeads") # {}
       /\ OpenCallsOf("generateIcebreakersForLeads") # {} )

-----------------------------------------------------------------------------
(* Termination of phase 1 *)

\* every Scrape and ExtractEmails call that is awaited eventually returns or
\* throws, and the continuation of a settled Promise.all is eventually run by
\* the event loop; when the user clicks is left open
CallsAnswer ==
    /\ \A j \in 1..MaxLeads + 1 :
          /\ WF_vars(ScrapeMainReturns(j))
          /\ WF_vars(ContactReturns(j))
          /\ WF_vars(ExtractReturns(j))
    /\ WF_vars(BatchResolves)

\* the lists termination is followed on: every row with a website and no
\* e-mail, its domain valid or not
LiveLists == {ls \in IngestedLists :
                 \A p \in 1..Len(ls) : Truthy(ls[p].website) /\ ~Truthy(ls[p].email)}

InitLive == Init /\ leads \in LiveLists

SpecLive == InitLive /\ [][Next]_vars /\ CallsAnswer

\* findEmailsForLeads has resolved with a terminal status on every valid lead
ResolvedAllTerminal ==
    /\ pc1 \in {"resolved", "done"}
    /\ Len(results) >= Len(validLeads)
    /\ \A n \in 1..Len(validLeads) :
          /\ results[n].lead.website = validLeads[n].website
          /\ results[n].lead.enrichmentStatus \in {"completed", "failed"}

\* C30: for every maxConcurrency and every lead list, if every Scrape and
\* ExtractEmails call eventually returns or throws, a running
\* findEmailsForLeads call eventually resolves, and then every valid-domain
\* lead is in status completed or failed.
C30_FindEmailsTerminates == (pc1 = "running") ~> ResolvedAllTerminal

\* a call over two batches has resolved with a completed and a failed lead
C30_Witness ==
    /\ ResolvedAllTerminal
    /\ batchCount >= 2
    /\ \E n, m \in 1..Len(validLeads) :
          /\ results[n].lead.enrichmentStatus = "completed"
          /\ results[m].lead.enrichmentStatus = "failed"

====
